---- MODULE Spec2Model ----
(***************************************************************************)
(* State-machine model of the real-time analysis engine of the video       *)
(* warning backend: the per-camera frame source (backend/app/engine/       *)
(* capture/camera_capture.py), the per-camera object tracker (backend/app/ *)
(* engine/analyzers/tracker.py), the engine manager with its alert         *)
(* decision (backend/app/engine/manager.py), the alert merge callback      *)
(* (backend/app/websocket/handlers.py) with the operator endpoints         *)
(* (backend/app/api/v1/alerts.py) and the stream broadcaster (backend/app/ *)
(* engine/stream.py).                                                      *)
(*                                                                         *)
(* One module, several specifications: every specification starts from the *)
(* state after construction of all components and lets the operations of   *)
(* one component run.                                                      *)
(***************************************************************************)
EXTENDS Integers, Sequences, FiniteSets, TLC

VARIABLES
    \* ---- CameraCapture (one frame source) ----
    config,               \* CaptureConfig of the frame source
    status,               \* CameraCapture._status
    frame_queue,          \* CameraCapture._frame_queue (frame ids, head first)
    frame_count,          \* CameraCapture._frame_count
    reconnect_count,      \* CameraCapture._reconnect_count
    stop_event,           \* CameraCapture._stop_event
    thread_alive,         \* _capture_thread is not None and is_alive()
    cap_pc,               \* position of the capture thread
    cap_ret,              \* the call site of _reconnect(): "connect", "fail" or "raise"
    interval,             \* local `interval` of _reconnect()
    consecutive_failures, \* local of _capture_loop()
    stop_pc,              \* position of a caller inside stop()
    waits,                \* history: waits requested inside the current _reconnect() call
    dequeued,             \* history: a frame was dequeued by a consumer since start()
    workers,              \* history: capture threads spawned and not yet ended
    start_ret,            \* history: number of start() calls and what the last returned
    \* ---- alert lifecycle (engine manager decision + engine_alert_callback) ----
    alert_logs,           \* table alert_logs, in creation order (id = index)
    callbacks,            \* engine_alert_callback coroutines scheduled on the main loop
    pushed,               \* per callback: number of push_alert() calls
    \* ---- YoloTracker per camera + the shared body model ----
    tracked_persons,      \* per camera: YoloTracker.tracked_persons
    disappeared_count,    \* per camera: YoloTracker.disappeared_count
    body_model,           \* the shared body model: persistent tracker state inside it
    now,                  \* wall clock, in seconds
    events,               \* per camera: what the last process() call returned
    tracker_log,          \* history: per camera and track id, the events emitted so far
    analysis_frames,      \* per camera: frames its analysis worker has processed
    attribution,          \* history: per camera, of the last process() call, the
                          \* ROI-qualifying ids that had not passed the height
                          \* filter, and whether the lookup of a matched id raised
    \* ---- StreamBroadcaster ----
    subscribers,          \* StreamBroadcaster._subscribers: camera id -> set of queues
    sub_queue,            \* contents of every subscriber queue
    sub_camera,           \* the camera a subscriber generator was created for
    broadcast_count,      \* per camera: frames broadcast so far
    sub_from,             \* history: broadcast_count of its camera when it subscribed
    sub_drained,          \* history: the subscriber consumed a frame
    sub_keys,             \* the camera ids that are keys of _subscribers
    sub_gen,              \* per subscriber: the state of its subscribe() generator
    \* ---- EngineManager ----
    engine_status,        \* EngineManager._status
    engine_start,         \* the start() call in flight or last returned
    engine_cameras,       \* per camera id: its CameraTask, its entry in
                          \* _analysis_threads / _stop_events, its live threads
    \* ---- the pipelines of all cameras + CompreFaceClient ----
    pipelines,            \* per camera: capture loop, frame queue, analysis worker
    recognition,          \* CompreFaceClient: _concurrent_limit and its semaphores
    \* ---- what the caller of an EngineManager operation gets back ----
    engine_ret,           \* the last call: operation, whether its id / key was
                          \* known, whether it changed anything, the value returned
    settings,             \* the global settings object: CONCURRENT_LIMIT_DEFAULT
    \* ---- FaceDatabase ----
    face_db,              \* _persons, _feature_matrix, _feature_ids, _total_embeddings
    db_match,             \* what the last recognize() call returned
    \* ---- FaceRecognizer + AlertCooldownManager ----
    recognizer,           \* config.alert_on_stranger and _last_alert_time
    rec_now,              \* time.time(), in seconds
    recognized,           \* the last decision made for a match result
    alert_history,        \* history: per camera and subject, the times of the
                          \* last two alerts that recognize() let through
    \* ---- _handle_analysis_events of one analysis thread ----
    returned,             \* history: the events process() returned, in order
    pending,              \* events of the current frame the for loop has not
                          \* reached yet (indices into returned)
    delivered             \* history: per returned event, the number of times
                          \* _on_alert was scheduled for it

capVars == <<config, status, frame_queue, frame_count, reconnect_count, stop_event,
             thread_alive, cap_pc, cap_ret, interval, consecutive_failures, stop_pc,
             waits, dequeued, workers, start_ret>>
alertVars == <<alert_logs, callbacks, pushed>>
trackerVars == <<tracked_persons, disappeared_count, body_model, now, events,
                 tracker_log, analysis_frames, attribution>>
streamVars == <<subscribers, sub_queue, sub_camera, broadcast_count, sub_from,
                sub_drained, sub_keys, sub_gen>>
engineVars == <<engine_status, engine_start, engine_cameras>>
pipeVars == <<pipelines, recognition>>
callVars == <<engine_ret, settings>>
dbVars == <<face_db, db_match>>
recVars == <<recognizer, rec_now, recognized, alert_history>>
handlingVars == <<returned, pending, delivered>>
vars == <<capVars, alertVars, trackerVars, streamVars, engineVars, pipeVars, callVars,
          dbVars, recVars,
      handlingVars>>

Min(a, b) == IF a <= b THEN a ELSE b

(***************************************************************************)
(* Bounds of the model.                                                    *)
(***************************************************************************)
MaxQueueSize == 3     \* largest configured queue_size
MaxFrames == 5        \* frames one capture thread reads successfully
MaxAttempts == 4      \* connection attempts of one capture thread
MaxStarts == 3        \* start() calls on one frame source that are followed

\* Seconds are kept as integers in units of 1/Scale second, so that the
\* products interval * reconnect_backoff of up to MaxAttempts attempts are
\* exact for the multipliers 1/2, 1 and 2 (as they are in binary floating point).
Scale == 2 ^ MaxAttempts

(***************************************************************************)
(* CameraCapture                                                           *)
(***************************************************************************)
\* CaptureConfig defaults (the engine manager passes none of these fields).
DefaultQueueSize == 30
DefaultConfig ==
    [queue_size |-> DefaultQueueSize, reconnect_interval |-> 1 * Scale,
     max_reconnect_interval |-> 60 * Scale, reconnect_backoff |-> <<2, 1>>]

\* The CaptureConfig values the capture specification is checked for: every
\* queue size with the default reconnection fields, and every combination of
\* the reconnection fields with a queue of one frame.
\* queue_size 0 is queue.Queue(maxsize=0): a queue without capacity limit.
Configs ==
    [queue_size : 0..MaxQueueSize,
     reconnect_interval : {1 * Scale},
     max_reconnect_interval : {60 * Scale},
     reconnect_backoff : {<<2, 1>>}]
    \cup
    [queue_size : {1},
     reconnect_interval : {1 * Scale, 3 * Scale},
     max_reconnect_interval : {2 * Scale, 60 * Scale},
     reconnect_backoff : {<<1, 2>>, <<1, 1>>, <<2, 1>>}]

max_consecutive_failures == 10

\* queue.Queue.full(): maxsize <= 0 never is.
QueueFull(q, maxsize) == maxsize > 0 /\ Len(q) >= maxsize

\* Mutant of DropOldest: evicts the most recently queued frame.
DropNewest(q) == SubSeq(q, 1, Len(q) - 1)

\* _frame_queue.get_nowait() of the producer on a full queue: the head leaves.
DropOldest(q) == Tail(q)

\* interval = min(interval * reconnect_backoff, max_reconnect_interval)
NextInterval(cur, cfg) ==
    Min((cur * cfg.reconnect_backoff[1]) \div cfg.reconnect_backoff[2],
        cfg.max_reconnect_interval)

CapInit(cfg) ==
    /\ config = cfg
    /\ status = "idle"
    /\ frame_queue = <<>>
    /\ frame_count = 0
    /\ reconnect_count = 0
    /\ stop_event = FALSE
    /\ thread_alive = FALSE
    /\ cap_pc = "none"
    /\ cap_ret = "connect"
    /\ interval = 0
    /\ consecutive_failures = 0
    /\ stop_pc = "idle"
    /\ waits = <<>>
    /\ dequeued = FALSE
    /\ workers = 0
    /\ start_ret = [calls |-> 0, ret |-> "none"]

\* Mutant of PreviousThreadAlive: the liveness of the previous thread is
\* not looked at.
PreviousThreadIgnored == FALSE

\* start(): self._capture_thread is not None and self._capture_thread.is_alive()
PreviousThreadAlive == thread_alive

\* start() past its two early returns: reset the counters, clear the queue
\* and spawn the capture thread.
SpawnCapture ==
    /\ stop_event' = FALSE
    /\ frame_count' = 0
    /\ reconnect_count' = 0
    /\ frame_queue' = <<>>
    /\ thread_alive' = TRUE
    /\ cap_pc' = "connect"
    /\ dequeued' = FALSE
    /\ workers' = workers + 1
    /\ UNCHANGED <<config, status, cap_ret, interval, consecutive_failures, stop_pc,
                   waits>>

\* start(): already running -> True; previous thread alive -> False; else
\* reset the counters, clear the queue and spawn the capture thread. Here
\* the call that spawns.
Start ==
    /\ stop_pc = "idle"
    /\ status # "running"
    /\ ~PreviousThreadAlive
    /\ SpawnCapture
    /\ UNCHANGED start_ret

\* start() with its return value: "noop" is the True of the already-running
\* return, "refused" the False of the thread-still-alive return, "spawned"
\* the True after spawning. The call holds the lock stop() holds.
StartCall ==
    /\ stop_pc = "idle"
    /\ start_ret.calls < MaxStarts
    /\ IF status = "running"
         THEN /\ start_ret' = [calls |-> start_ret.calls + 1, ret |-> "noop"]
              /\ UNCHANGED <<config, status, frame_queue, frame_count, reconnect_count,
                             stop_event, thread_alive, cap_pc, cap_ret, interval,
                             consecutive_failures, stop_pc, waits, dequeued, workers>>
         ELSE IF PreviousThreadAlive
         THEN /\ start_ret' = [calls |-> start_ret.calls + 1, ret |-> "refused"]
              /\ UNCHANGED <<config, status, frame_queue, frame_count, reconnect_count,
                             stop_event, thread_alive, cap_pc, cap_ret, interval,
                             consecutive_failures, stop_pc, waits, dequeued, workers>>
         ELSE /\ start_ret' = [calls |-> start_ret.calls + 1, ret |-> "spawned"]
              /\ SpawnCapture

\* stop(): the early return, taken when the status is stopped or idle.
StopReturnsEarly == status \in {"stopped", "idle"}

\* stop(), first half: nothing to do when stopped or idle; otherwise set the
\* stop flag and join the capture thread under the lock.
StopSignal ==
    /\ stop_pc = "idle"
    /\ ~StopReturnsEarly
    /\ stop_event' = TRUE
    /\ stop_pc' = "joining"
    /\ UNCHANGED <<config, status, frame_queue, frame_count, reconnect_count,
                   thread_alive, cap_pc, cap_ret, interval, consecutive_failures,
                   waits, dequeued, workers, start_ret>>

\* stop(), second half: the join returned (the thread ended, or the timeout
\* passed with the thread still alive); the status is forced to stopped.
StopReturn ==
    /\ stop_pc = "joining"
    /\ status' = "stopped"
    /\ stop_pc' = "idle"
    /\ UNCHANGED <<config, frame_queue, frame_count, reconnect_count, stop_event,
                   thread_alive, cap_pc, cap_ret, interval, consecutive_failures,
                   waits, dequeued, workers, start_ret>>

\* Entry of _reconnect(): status reconnecting, interval = reconnect_interval.
EnterReconnect(from) ==
    /\ status' = "reconnecting"
    /\ interval' = config.reconnect_interval
    /\ waits' = <<>>
    /\ cap_ret' = from
    /\ cap_pc' = "rc_try"

\* The capture thread leaves _capture_loop(): _disconnect(), status stopped.
ExitThread ==
    /\ status' = "stopped"
    /\ cap_pc' = "none"
    /\ thread_alive' = FALSE
    /\ workers' = workers - 1

\* Mutant of ReconnectStops: it also gives up after two attempts.
ReconnectStopsAfterAttempts == stop_event \/ reconnect_count >= 2

\* `while not self._stop_event.is_set()` at the head of _reconnect(): the
\* condition under which _reconnect() gives up and returns False.
ReconnectStops == stop_event

\* _capture_loop() starts: _connect() sets the status to connecting and
\* opens the stream, which blocks up to the connection and read timeouts.
ConnectBegin ==
    /\ cap_pc = "connect"
    /\ status' = "connecting"
    /\ cap_pc' = "connecting"
    /\ UNCHANGED <<config, frame_queue, frame_count, reconnect_count, stop_event,
                   thread_alive, cap_ret, interval, consecutive_failures, stop_pc,
                   waits, dequeued, workers, start_ret>>

\* _capture_loop(), first connection: _connect() succeeds (status running)
\* or fails (status error) and _reconnect() is entered.
ConnectFirst(ok) ==
    /\ cap_pc = "connecting"
    /\ IF ok
         THEN /\ status' = "running"
              /\ cap_pc' = "loop"
              /\ consecutive_failures' = 0
              /\ UNCHANGED <<interval, waits, cap_ret>>
         ELSE /\ EnterReconnect("connect")
              /\ UNCHANGED consecutive_failures
    /\ UNCHANGED <<config, frame_queue, frame_count, reconnect_count, stop_event,
                   thread_alive, stop_pc, dequeued, workers, start_ret>>

\* The head of one pass of the while loop of _reconnect(): leave with False
\* when the stop flag is set, else count the attempt and enter _connect()
\* (status connecting).
ReconnectTry ==
    /\ cap_pc = "rc_try"
    /\ IF ReconnectStops
         THEN /\ ExitThread
              /\ UNCHANGED reconnect_count
         ELSE /\ reconnect_count < MaxAttempts
              /\ reconnect_count' = reconnect_count + 1
              /\ status' = "connecting"
              /\ cap_pc' = "rc_connecting"
              /\ UNCHANGED <<thread_alive, workers>>
    /\ UNCHANGED <<config, frame_queue, frame_count, stop_event, cap_ret, interval,
                   consecutive_failures, stop_pc, waits, dequeued, start_ret>>

\* _connect() inside _reconnect() returns: on success the status is running
\* and _reconnect() returns True; on failure the status is error and the wait
\* of `interval` seconds is requested. Back in the loop, the read-failure
\* path resets consecutive_failures; the exception path does not.
ReconnectConnect(ok) ==
    /\ cap_pc = "rc_connecting"
    /\ IF ok
         THEN /\ status' = "running"
              /\ cap_pc' = "loop"
              /\ consecutive_failures' =
                     IF cap_ret = "raise" THEN consecutive_failures ELSE 0
              /\ UNCHANGED waits
         ELSE /\ status' = "error"
              /\ cap_pc' = "rc_wait"
              /\ waits' = Append(waits, interval)
              /\ UNCHANGED consecutive_failures
    /\ UNCHANGED <<config, frame_queue, frame_count, reconnect_count, stop_event,
                   thread_alive, cap_ret, interval, stop_pc, dequeued, workers,
                   start_ret>>

\* _stop_event.wait(interval): interrupted by the stop flag (break, return
\* False) or timed out, after which the interval is multiplied and capped.
ReconnectWait ==
    /\ cap_pc = "rc_wait"
    /\ IF stop_event
         THEN /\ ExitThread
              /\ UNCHANGED interval
         ELSE /\ interval' = NextInterval(interval, config)
              /\ cap_pc' = "rc_try"
              /\ UNCHANGED <<status, thread_alive, workers>>
    /\ UNCHANGED <<config, frame_queue, frame_count, reconnect_count, stop_event,
                   cap_ret, consecutive_failures, stop_pc, waits, dequeued, start_ret>>

\* One pass of the while loop of _capture_loop() that does a full read.
\* outcome "frame": the read succeeded; "fail": it returned no frame;
\* "raise": an exception was raised inside the loop body.
CaptureStep(outcome) ==
    /\ cap_pc = "loop"
    /\ IF stop_event
         THEN /\ ExitThread
              /\ UNCHANGED <<frame_queue, frame_count, consecutive_failures, interval,
                             waits, cap_ret>>
         ELSE /\ UNCHANGED <<thread_alive, workers>>
              /\ CASE outcome = "frame" ->
                        /\ frame_count < MaxFrames
                        /\ consecutive_failures' = 0
                        /\ frame_count' = frame_count + 1
                        /\ IF QueueFull(frame_queue, config.queue_size)
                             THEN /\ cap_pc' = "evict"
                                  /\ UNCHANGED frame_queue
                             ELSE /\ frame_queue' = Append(frame_queue, frame_count + 1)
                                  /\ UNCHANGED cap_pc
                        /\ UNCHANGED <<status, interval, waits, cap_ret>>
                   [] outcome = "fail" ->
                        /\ UNCHANGED <<frame_queue, frame_count>>
                        /\ IF consecutive_failures + 1 >= max_consecutive_failures
                             THEN /\ EnterReconnect("fail")
                                  /\ consecutive_failures' = consecutive_failures + 1
                             ELSE /\ consecutive_failures' = consecutive_failures + 1
                                  /\ UNCHANGED <<status, interval, waits, cap_ret, cap_pc>>
                   [] outcome = "raise" ->
                        /\ EnterReconnect("raise")
                        /\ UNCHANGED <<frame_queue, frame_count, consecutive_failures>>
    /\ UNCHANGED <<config, reconnect_count, stop_event, stop_pc, dequeued, start_ret>>

\* The queue.Full handler: get_nowait() then put_nowait(frame_data); an
\* empty queue (the consumer drained it meanwhile) drops the new frame.
Evict ==
    /\ cap_pc = "evict"
    /\ frame_queue' = IF frame_queue = <<>>
                        THEN frame_queue
                        ELSE Append(DropOldest(frame_queue), frame_count)
    /\ cap_pc' = "loop"
    /\ UNCHANGED <<config, status, frame_count, reconnect_count, stop_event,
                   thread_alive, cap_ret, interval, consecutive_failures, stop_pc,
                   waits, dequeued, workers, start_ret>>

\* get_frame(): the consumer takes the head of the queue, if there is one.
GetFrame ==
    /\ frame_queue # <<>>
    /\ frame_queue' = Tail(frame_queue)
    /\ dequeued' = TRUE
    /\ UNCHANGED <<config, status, frame_count, reconnect_count, stop_event,
                   thread_alive, cap_pc, cap_ret, interval, consecutive_failures,
                   stop_pc, waits, workers, start_ret>>

notCapVars == <<alertVars, trackerVars, streamVars, engineVars, pipeVars, callVars, dbVars,
      recVars,
      handlingVars>>

NextCapture ==
    \/ Start /\ UNCHANGED notCapVars
    \/ StopSignal /\ UNCHANGED notCapVars
    \/ StopReturn /\ UNCHANGED notCapVars
    \/ ConnectBegin /\ UNCHANGED notCapVars
    \/ \E ok \in BOOLEAN : ConnectFirst(ok) /\ UNCHANGED notCapVars
    \/ ReconnectTry /\ UNCHANGED notCapVars
    \/ \E ok \in BOOLEAN : ReconnectConnect(ok) /\ UNCHANGED notCapVars
    \/ ReconnectWait /\ UNCHANGED notCapVars
    \/ \E outcome \in {"frame", "fail", "raise"} :
          CaptureStep(outcome) /\ UNCHANGED notCapVars
    \/ Evict /\ UNCHANGED notCapVars
    \/ GetFrame /\ UNCHANGED notCapVars

\* The frame source with start() followed call by call.
NextSource ==
    \/ StartCall /\ UNCHANGED notCapVars
    \/ StopSignal /\ UNCHANGED notCapVars
    \/ StopReturn /\ UNCHANGED notCapVars
    \/ ConnectBegin /\ UNCHANGED notCapVars
    \/ \E ok \in BOOLEAN : ConnectFirst(ok) /\ UNCHANGED notCapVars
    \/ ReconnectTry /\ UNCHANGED notCapVars
    \/ \E ok \in BOOLEAN : ReconnectConnect(ok) /\ UNCHANGED notCapVars
    \/ ReconnectWait /\ UNCHANGED notCapVars
    \/ \E outcome \in {"frame", "fail", "raise"} :
          CaptureStep(outcome) /\ UNCHANGED notCapVars
    \/ Evict /\ UNCHANGED notCapVars
    \/ GetFrame /\ UNCHANGED notCapVars

(***************************************************************************)
(* Alert lifecycle: the alert decision of EngineManager and the merge of   *)
(* engine_alert_callback                                                   *)
(***************************************************************************)
NumCameras == 2       \* cameras registered with the engine
MaxTrackId == 1       \* track ids the body tracker hands out
MaxEvents == 3        \* tracker events handed to the alert callback

Cameras == 1..NumCameras
TrackIds == 1..MaxTrackId

\* No row / no image (None).
NoRecord == [id |-> 0]
NoImage == 0

\* TrackerEvent.alert_level as _create_face_event / _create_body_event set it.
TrackerEventLevel(event_type) ==
    IF event_type = "FACE_DETECTED" THEN "critical" ELSE "warning"

\* _handle_analysis_events, step 3: the alert type and level of one event.
\* is_known can only be true for a FACE_DETECTED event (only those are sent
\* to the recognition backend).
AlertDecision(event_type, is_known) ==
    IF is_known
      THEN [alert_type |-> "known", alert_level |-> "info"]
      ELSE IF event_type = "BODY_DETECTED"
             THEN [alert_type |-> "stranger", alert_level |-> "warning"]
             ELSE [alert_type |-> "stranger",
                   alert_level |-> TrackerEventLevel(event_type)]

\* _handle_analysis_events, step 4: the alert_data of event number n.
\* A body event carries no face image.
AlertData(c, t, event_type, is_known, n) ==
    [track_id |-> t, camera_id |-> c,
     alert_type |-> AlertDecision(event_type, is_known).alert_type,
     alert_level |-> AlertDecision(event_type, is_known).alert_level,
     event_type |-> event_type, is_known |-> is_known,
     face_image |-> IF event_type = "FACE_DETECTED" THEN n ELSE NoImage,
     body_image |-> n,
     score |-> n]

\* select(AlertLog).where(track_id, camera_id).order_by(created_at.desc()).limit(1)
LatestAlert(logs, c, t) ==
    LET ids == {k \in 1..Len(logs) : logs[k].track_id = t /\ logs[k].camera_id = c}
    IN  IF ids = {} THEN 0 ELSE CHOOSE k \in ids : \A j \in ids : j <= k

\* Mutant of KnownBranch: the de-escalation leaves the status as it was.
KnownBranchKeepsStatus(rec, data) ==
    [rec EXCEPT !.alert_type = "known", !.alert_level = "info",
                !.face_image_path = IF data.face_image # NoImage
                                      THEN data.face_image ELSE @]

\* The merge branch of a known-person event: type known, level info, status
\* processed, the face image replaced when the event has one.
KnownBranch(rec, data) ==
    [rec EXCEPT !.alert_type = "known", !.alert_level = "info",
                !.status = "processed",
                !.face_image_path = IF data.face_image # NoImage
                                      THEN data.face_image ELSE @]

\* The merge branch taken when the stored level is info and the event is
\* critical: level critical, type stranger, status pending again.
EscalateBranch(rec, data) ==
    [rec EXCEPT !.alert_level = "critical", !.alert_type = "stranger",
                !.face_image_path = data.face_image, !.status = "pending"]

\* The remaining merge branch: only the stored images are updated.
UpdateBranch(rec, data) ==
    [rec EXCEPT !.face_image_path = IF data.face_image # NoImage
                                      THEN data.face_image ELSE @,
                !.best_body_image_path = IF data.body_image # NoImage
                                           THEN data.body_image ELSE @]

MergeBranch(rec, data) ==
    IF data.alert_type = "known" THEN "known"
    ELSE IF rec.alert_level = "info" /\ data.alert_level = "critical" THEN "escalate"
    ELSE "update"

\* should_push after the merge logic: only the last branch clears it.
MergePush(rec, data) == MergeBranch(rec, data) # "update"

\* The loaded row after the merge logic ran on it: the branch, then end_time
\* and the image history (a copy of the loaded list plus one entry).
Merge(rec, data, n, stamp) ==
    LET b == MergeBranch(rec, data)
        r == IF b = "known" THEN KnownBranch(rec, data)
             ELSE IF b = "escalate" THEN EscalateBranch(rec, data)
             ELSE UpdateBranch(rec, data)
    IN  [r EXCEPT !.end_time = stamp, !.image_history = Append(rec.image_history, n)]

\* db.commit() of a merged row: the UPDATE sets the columns whose value was
\* changed on the loaded object, the other columns keep what the table holds.
Fields == {"alert_type", "alert_level", "status", "face_image_path",
           "best_body_image_path", "image_history", "end_time"}
WriteChanged(row, loaded, obj) ==
    [f \in DOMAIN row |->
        IF f \in Fields /\ obj[f] # loaded[f] THEN obj[f] ELSE row[f]]

\* AlertLog(...) of the create branch; status, end_time and processed_by are
\* not passed: the column default of status is pending, end_time and
\* processed_by stay NULL (0).
NewAlert(data, n, id) ==
    [id |-> id, track_id |-> data.track_id, camera_id |-> data.camera_id,
     alert_type |-> data.alert_type, alert_level |-> data.alert_level,
     status |-> "pending",
     face_image_path |-> data.face_image, best_body_image_path |-> data.body_image,
     image_history |-> <<n>>, end_time |-> 0, processed_by |-> 0,
     created_from |-> data.event_type]

\* The logical time of the next commit (datetime.now() of a merge).
CommitStamp == Cardinality({i \in 1..Len(callbacks) : callbacks[i].committed}) + 1

\* The alert component only compares (camera, track) keys for equality, so
\* the events are drawn with their keys in a fixed order of first use: a key
\* not used before is the least unused one.
KeyRank(c, t) == (c - 1) * MaxTrackId + t
KeyInOrder(c, t) ==
    \A c2 \in Cameras, t2 \in TrackIds :
        KeyRank(c2, t2) < KeyRank(c, t) =>
            \E i \in 1..Len(callbacks) :
                callbacks[i].data.camera_id = c2 /\ callbacks[i].data.track_id = t2

AlertInit ==
    /\ alert_logs = <<>>
    /\ callbacks = <<>>
    /\ pushed = <<>>

\* _handle_analysis_events for one tracker event: decide type and level and
\* schedule engine_alert_callback(alert_data) on the main loop.
HandleAnalysisEvent(c, t, event_type, is_known) ==
    /\ Len(callbacks) < MaxEvents
    /\ KeyInOrder(c, t)
    /\ is_known => event_type = "FACE_DETECTED"
    /\ callbacks' = Append(callbacks,
          [data |-> AlertData(c, t, event_type, is_known, Len(callbacks) + 1),
           pc |-> "lookup", existing |-> 0, loaded |-> NoRecord,
           result |-> NoRecord, committed |-> FALSE, should_push |-> TRUE])
    /\ pushed' = Append(pushed, 0)
    /\ UNCHANGED alert_logs

\* engine_alert_callback up to its commit: the lookup of the latest row of
\* (track_id, camera_id) and, on the loaded row, the merge logic. A failing
\* lookup raises into the except clause and the callback goes on to the push.
CallbackLookup(i, ok) ==
    /\ callbacks[i].pc = "lookup"
    /\ LET d == callbacks[i].data
           k == LatestAlert(alert_logs, d.camera_id, d.track_id)
       IN  callbacks' = [callbacks EXCEPT ![i] =
             IF ~ok THEN [@ EXCEPT !.pc = "push"]
             ELSE IF k = 0 THEN [@ EXCEPT !.pc = "commit"]
             ELSE [@ EXCEPT !.pc = "commit", !.existing = k,
                            !.loaded = alert_logs[k],
                            !.should_push = MergePush(alert_logs[k], d)]]
    /\ UNCHANGED <<alert_logs, pushed>>

\* await db.commit(): the merged row is updated or the new row inserted; a
\* failing commit raises into the except clause and leaves the table alone.
CallbackCommit(i, ok) ==
    /\ callbacks[i].pc = "commit"
    /\ LET cb == callbacks[i]
           row == IF cb.existing = 0
                    THEN NewAlert(cb.data, i, Len(alert_logs) + 1)
                    ELSE WriteChanged(alert_logs[cb.existing], cb.loaded,
                                      Merge(cb.loaded, cb.data, i, CommitStamp))
       IN  IF ok
             THEN /\ alert_logs' = IF cb.existing = 0
                                     THEN Append(alert_logs, row)
                                     ELSE [alert_logs EXCEPT ![cb.existing] = row]
                  /\ callbacks' = [callbacks EXCEPT ![i] =
                        [@ EXCEPT !.pc = "push", !.committed = TRUE, !.result = row]]
             ELSE /\ callbacks' = [callbacks EXCEPT ![i] = [@ EXCEPT !.pc = "push"]]
                  /\ UNCHANGED alert_logs
    /\ UNCHANGED pushed

\* if should_push: await push_alert(alert_data)
CallbackPush(i) ==
    /\ callbacks[i].pc = "push"
    /\ callbacks' = [callbacks EXCEPT ![i] = [@ EXCEPT !.pc = "done"]]
    /\ pushed' = [pushed EXCEPT ![i] = IF callbacks[i].should_push THEN @ + 1 ELSE @]
    /\ UNCHANGED alert_logs

notAlertVars == <<capVars, trackerVars, streamVars, engineVars, pipeVars, callVars, dbVars,
      recVars,
      handlingVars>>

NextAlert ==
    \/ \E c \in Cameras, t \in TrackIds,
          event_type \in {"FACE_DETECTED", "BODY_DETECTED"}, is_known \in BOOLEAN :
          HandleAnalysisEvent(c, t, event_type, is_known) /\ UNCHANGED notAlertVars
    \/ \E i \in 1..Len(callbacks), ok \in BOOLEAN :
          CallbackLookup(i, ok) /\ UNCHANGED notAlertVars
    \/ \E i \in 1..Len(callbacks), ok \in BOOLEAN :
          CallbackCommit(i, ok) /\ UNCHANGED notAlertVars
    \/ \E i \in 1..Len(callbacks) : CallbackPush(i) /\ UNCHANGED notAlertVars

\* The operator endpoints process_alert / ignore_alert on row k: refused
\* unless the row is pending; the status becomes processed or ignored and
\* processed_by the operator (user 1).
OperatorFinalize(k, new_status) ==
    /\ alert_logs[k].status = "pending"
    /\ alert_logs' = [alert_logs EXCEPT ![k] =
                        [@ EXCEPT !.status = new_status, !.processed_by = 1]]
    /\ UNCHANGED <<callbacks, pushed>>

\* The alert callbacks together with the operator working on the rows.
NextLifecycle ==
    \/ NextAlert
    \/ \E k \in 1..Len(alert_logs), new_status \in {"processed", "ignored"} :
          OperatorFinalize(k, new_status) /\ UNCHANGED notAlertVars

(***************************************************************************)
(* YoloTracker: one instance per camera, all built on the same body model  *)
(***************************************************************************)
MaxTime == 4                  \* seconds of wall clock the model follows
MaxFaces == 1                 \* faces of one frame attributed to a qualifying track
MaxWorkerFrames == 2          \* frames each analysis worker processes
MaxAttributionFrames == 3     \* frames followed with a distant person in view
MaxFrameFaces == 2            \* faces of one of those frames
ALERT_COOLDOWN_SECONDS == 2   \* configured settings.ALERT_COOLDOWN_SECONDS

max_disappeared == 40
MinFaceScore == 600           \* the quality floor of _should_save_face
BodyOnlyFaceScore == 300      \* below it a track counts as having no good face

\* conf * 1000.0 of the detected faces: one below the quality floor, and two
\* above it of which 750 is exactly 1.2 * 625, also in binary floating point.
FaceScores == {500, 625, 750}

\* The same with a score between 625 * 1.05 and 625 * 1.2.
CloseFaceScores == FaceScores \cup {700}

NoPerson == [id |-> 0]

\* The track id of a person far from the camera.
FarTrackId == MaxTrackId + 1

\* TrackedPerson(track_id, start_time)
NewPerson(t, ts) ==
    [id |-> t, start_time |-> ts, best_face_score |-> 0, last_save_time |-> 0,
     saved_face_score |-> 0, is_stranger_body_reported |-> FALSE]

\* TrackedPerson.update_face: keep the best score.
UpdateFace(p, score) ==
    IF score > p.best_face_score THEN [p EXCEPT !.best_face_score = score] ELSE p

\* _should_save_face(person, current_score) at time now_ts.
ShouldSaveFace(p, current_score, now_ts) ==
    IF /\ now_ts - p.last_save_time < ALERT_COOLDOWN_SECONDS
       /\ current_score * 10 < p.saved_face_score * 12
      THEN FALSE
    ELSE IF current_score < MinFaceScore THEN FALSE
    ELSE current_score * 100 > p.saved_face_score * 105

\* What _should_save_face records on the person when it returns True.
RecordSave(p, current_score, now_ts) ==
    [p EXCEPT !.last_save_time = now_ts, !.saved_face_score = current_score]

\* The body model with its persistent tracker (track(persist=True)): per
\* track id, 0 while the tracker has not issued it, else the camera whose
\* frame it was issued for; and the cameras whose process() calls have run
\* the tracker. One object, passed to the YoloTracker of every camera.
BodyModelLoaded == [tracks |-> [t \in TrackIds |-> 0], users |-> {}]

Issued(model) == {t \in TrackIds : model.tracks[t] # 0}

\* The ids model_body.track() can return for a frame: tracks the persistent
\* tracker holds, and the next id it issues.
Reportable(model) ==
    Issued(model) \cup
      (IF Issued(model) = TrackIds THEN {}
       ELSE {CHOOSE t \in TrackIds \ Issued(model) :
               \A u \in TrackIds \ Issued(model) : t <= u})

\* The body model after track() returned `reported` for a frame of camera c.
Track(model, c, reported) ==
    [tracks |-> [t \in TrackIds |->
                   IF t \in reported /\ model.tracks[t] = 0 THEN c
                   ELSE model.tracks[t]],
     users |-> model.users \cup {c}]

\* Step 2 of process(): the ids whose body centre is inside the ROI; the
\* loop runs over every reported box. Without a ROI, every current id.
RoiPersonIds(roi_configured, current_ids, roi) ==
    IF current_ids = {} THEN {}
    ELSE IF roi_configured THEN roi
    ELSE current_ids

\* The faces of a frame that _match_face_to_body attributes to a qualifying
\* id: sequences of at most nfaces of [match, score].
FaceSeqsUpTo(roi_ids, nfaces, scores) ==
    UNION {[1..n -> [match : roi_ids, score : scores]] : n \in 0..nfaces}

FaceSeqs(roi_ids) == FaceSeqsUpTo(roi_ids, MaxFaces, FaceScores)

\* _create_face_event: the event carries the best face score of the person;
\* saved_score is the score _should_save_face just recorded for it.
FaceEvent(p, ts) ==
    [type |-> "FACE_DETECTED", track_id |-> p.id, timestamp |-> ts,
     face_score |-> p.best_face_score, saved_score |-> p.saved_face_score,
     alert_level |-> TrackerEventLevel("FACE_DETECTED")]

\* _create_body_event
BodyEvent(p, ts) ==
    [type |-> "BODY_DETECTED", track_id |-> p.id, timestamp |-> ts,
     face_score |-> 0, saved_score |-> 0,
     alert_level |-> TrackerEventLevel("BODY_DETECTED")]

\* Step 1 of process(): register the ids that pass the height filter.
Register(persons, current_ids, ts) ==
    [t \in TrackIds |->
        IF t \in current_ids /\ persons[t] = NoPerson THEN NewPerson(t, ts)
        ELSE persons[t]]

\* Step 3 of process(), one face: st = [persons, evs, log, raised]. Looking
\* up a qualifying id that is not registered raises KeyError.
RECURSIVE FaceLoop(_, _, _, _)
FaceLoop(st, faces, k, ts) ==
    IF k > Len(faces) \/ st.raised THEN st
    ELSE LET m == faces[k].match
             score == faces[k].score
         IN  IF m \notin TrackIds \/ st.persons[m] = NoPerson
               THEN [st EXCEPT !.raised = TRUE]
             ELSE LET p1 == UpdateFace(st.persons[m], score)
                      save == ShouldSaveFace(p1, score, ts)
                      p2 == IF save THEN RecordSave(p1, score, ts) ELSE p1
                  IN  FaceLoop(
                        [persons |-> [st.persons EXCEPT ![m] = p2],
                         evs |-> IF save THEN Append(st.evs, FaceEvent(p2, ts))
                                 ELSE st.evs,
                         raised |-> FALSE],
                        faces, k + 1, ts)

\* Step "3." of process(): no good face, present for more than 1 second, not
\* reported yet.
Loiters(p, ts) ==
    /\ p.best_face_score < BodyOnlyFaceScore
    /\ ts - p.start_time > 1
    /\ ~p.is_stranger_body_reported

BodyCheck(persons, current_ids, ts) ==
    [t \in TrackIds |->
        IF t \in current_ids /\ persons[t] # NoPerson /\ Loiters(persons[t], ts)
          THEN [persons[t] EXCEPT !.is_stranger_body_reported = TRUE]
          ELSE persons[t]]

\* The body events of a frame, in the order of current_ids (ascending ids).
RECURSIVE BodyEvents(_, _, _, _)
BodyEvents(persons, current_ids, ts, t) ==
    IF t > MaxTrackId THEN <<>>
    ELSE (IF t \in current_ids /\ persons[t] # NoPerson /\ Loiters(persons[t], ts)
            THEN <<BodyEvent(persons[t], ts)>> ELSE <<>>)
         \o BodyEvents(persons, current_ids, ts, t + 1)

\* Step 4 of process(): the absent tracks count up and are deleted once the
\* count exceeds max_disappeared. NoCount: the id has no counter.
NoCount == -1

\* Mutant of Evicted: the track is deleted when the count reaches the
\* threshold.
EvictedAtThreshold(persons, counts, current_ids, t) ==
    /\ persons[t] # NoPerson
    /\ t \notin current_ids
    /\ counts[t] + 1 >= max_disappeared

Evicted(persons, counts, current_ids, t) ==
    /\ persons[t] # NoPerson
    /\ t \notin current_ids
    /\ counts[t] + 1 > max_disappeared

\* History of the events process() returned for track id t: the number of
\* BODY_DETECTED events (counted up to 2) and the last two FACE_DETECTED
\* emissions with their time and recorded score.
NoLog == [body |-> 0, faces |-> <<>>]
RECURSIVE LogOf(_, _, _)
LogOf(log, evs, t) ==
    IF evs = <<>> THEN log
    ELSE LET e == Head(evs)
             f == Append(log.faces, [time |-> e.timestamp, score |-> e.saved_score])
         IN  LogOf(IF e.track_id # t THEN log
                   ELSE IF e.type = "BODY_DETECTED"
                          THEN [log EXCEPT !.body = Min(@ + 1, 2)]
                   ELSE [log EXCEPT !.faces =
                           IF Len(f) > 2 THEN SubSeq(f, Len(f) - 1, Len(f)) ELSE f],
                   Tail(evs), t)

TrackerInit ==
    /\ tracked_persons = [c \in Cameras |-> [t \in TrackIds |-> NoPerson]]
    /\ disappeared_count = [c \in Cameras |-> [t \in TrackIds |-> NoCount]]
    /\ body_model = BodyModelLoaded
    /\ now = 0
    /\ events = [c \in Cameras |-> <<>>]
    /\ tracker_log = [c \in Cameras |-> [t \in TrackIds |-> NoLog]]
    /\ analysis_frames = [c \in Cameras |-> 0]
    /\ attribution = [c \in Cameras |-> [stray |-> {}, raised |-> FALSE]]

\* YoloTracker.process(frame, timestamp) of camera c, dt seconds after the
\* previous call anywhere: `reported` are the ids the body model returns,
\* `tall` those whose box passes the height filter, `roi` those whose centre
\* is inside the ROI, `faces` the detected faces attributed to qualifying ids.
\* When the face loop raises, the call returns nothing: what it changed up
\* to there stays, the loitering check and the eviction are not reached.
Process(c, dt, reported, tall, roi_configured, roi, faces) ==
    LET ts == now + dt
        current_ids == tall
        p1 == Register(tracked_persons[c], current_ids, ts)
        d1 == [t \in TrackIds |->
                 IF t \in current_ids THEN 0 ELSE disappeared_count[c][t]]
        st == FaceLoop([persons |-> p1, evs |-> <<>>, raised |-> FALSE], faces, 1, ts)
        p3 == BodyCheck(st.persons, current_ids, ts)
        bevs == BodyEvents(st.persons, current_ids, ts, 1)
        all == st.evs \o bevs
        roi_person_ids == RoiPersonIds(roi_configured, current_ids, roi)
    IN  /\ now + dt <= MaxTime
        /\ attribution' = [attribution EXCEPT ![c] =
              [stray |-> roi_person_ids \ current_ids, raised |-> st.raised]]
        /\ now' = ts
        /\ body_model' = Track(body_model, c, reported)
        /\ IF st.raised
             THEN /\ tracked_persons' = [tracked_persons EXCEPT ![c] = st.persons]
                  /\ disappeared_count' = [disappeared_count EXCEPT ![c] = d1]
                  /\ events' = [events EXCEPT ![c] = <<>>]
                  /\ UNCHANGED tracker_log
             ELSE /\ tracked_persons' = [tracked_persons EXCEPT ![c] =
                        [t \in TrackIds |->
                           IF Evicted(p3, d1, current_ids, t) THEN NoPerson ELSE p3[t]]]
                  /\ disappeared_count' = [disappeared_count EXCEPT ![c] =
                        [t \in TrackIds |->
                           IF p3[t] = NoPerson \/ Evicted(p3, d1, current_ids, t)
                             THEN NoCount
                           ELSE IF t \in current_ids THEN 0
                           ELSE d1[t] + 1]]
                  /\ events' = [events EXCEPT ![c] = all]
                  /\ tracker_log' = [tracker_log EXCEPT ![c] =
                        [t \in TrackIds |-> LogOf(tracker_log[c][t], all, t)]]

\* The inputs of one process() call for a frame with at most nfaces faces
\* of qualifying ids. far: ids of tracks the body model also reports whose
\* boxes are below the height filter in every frame (they are never
\* registered). scores: conf * 1000.0 of the faces.
ProcessAmong(c, far, nfaces, scores) ==
    \E dt \in {0, 1}, reported \in SUBSET (Reportable(body_model) \cup far),
       roi_configured \in BOOLEAN :
      \E tall \in SUBSET (reported \ far),
         roi \in (IF roi_configured THEN SUBSET reported ELSE {{}}) :
        \E faces \in FaceSeqsUpTo(RoiPersonIds(roi_configured, tall, roi),
                                   nfaces, scores) :
          Process(c, dt, reported, tall, roi_configured, roi, faces)

\* The inputs of one process() call in which every reported id is one of
\* the ids that are followed.
ProcessAny(c) == ProcessAmong(c, {}, MaxFaces, FaceScores)

notTrackerVars == <<capVars, alertVars, streamVars, engineVars, pipeVars, callVars, dbVars,
      recVars,
      handlingVars>>

\* The tracker of camera 1 alone.
NextTracker ==
    ProcessAny(1) /\ UNCHANGED <<analysis_frames, notTrackerVars>>

\* The first frames of the tracker of camera 1, with a distant person in
\* view next to the persons that are followed.
NextAttribution ==
    /\ analysis_frames[1] < MaxAttributionFrames
    /\ ProcessAmong(1, {FarTrackId}, MaxFrameFaces, CloseFaceScores)
    /\ analysis_frames' = [analysis_frames EXCEPT ![1] = @ + 1]
    /\ UNCHANGED notTrackerVars

\* The analysis workers of all cameras, each calling process() of its own
\* tracker for the frames it dequeues.
NextWorkers ==
    \E c \in Cameras :
        /\ analysis_frames[c] < MaxWorkerFrames
        /\ ProcessAny(c)
        /\ analysis_frames' = [analysis_frames EXCEPT ![c] = @ + 1]
        /\ UNCHANGED notTrackerVars

(***************************************************************************)
(* StreamBroadcaster: per camera, the queues of the subscribed clients     *)
(***************************************************************************)
MaxSubscribers == 2           \* subscribe() calls the model follows
MaxBroadcasts == 4            \* frames broadcast per camera

SubscriberQueueSize == 2      \* asyncio.Queue(maxsize=2)

Subs == 1..MaxSubscribers

\* Mutant of PutLatest: a full queue keeps what it has.
PutIfRoom(q, frame) ==
    IF Len(q) >= SubscriberQueueSize THEN q ELSE Append(q, frame)

\* broadcast(), one queue: if q.full() the oldest frame is taken out, then
\* the new one is put.
PutLatest(q, frame) ==
    Append(IF Len(q) >= SubscriberQueueSize THEN Tail(q) ELSE q, frame)

\* subscribers[c]: the set of queues of camera c; sub_queue[s]: the content
\* of queue s; sub_camera[s]: 0 before subscribe(), else its camera.
\* broadcast_count[c] numbers the frames of camera c; sub_from[s] is the
\* count when s subscribed and sub_drained[s] whether s ever took a frame.
\* sub_keys: the keys of the dict (subscribers[c] of a camera that is no key
\* is {}); sub_gen[s]: "created" before the generator first runs, "active"
\* while it is inside its try block, "closed" once it has ended.
StreamInit ==
    /\ subscribers = [c \in Cameras |-> {}]
    /\ sub_queue = [s \in Subs |-> <<>>]
    /\ sub_camera = [s \in Subs |-> 0]
    /\ broadcast_count = [c \in Cameras |-> 0]
    /\ sub_from = [s \in Subs |-> 0]
    /\ sub_drained = [s \in Subs |-> FALSE]
    /\ sub_keys = {}
    /\ sub_gen = [s \in Subs |-> "created"]

\* subscribe(camera_id) up to the first q.get(): a new queue is added to the
\* camera's set.
Subscribe(s, c) ==
    /\ sub_camera[s] = 0
    /\ \A r \in Subs : r < s => sub_camera[r] # 0
    /\ sub_camera' = [sub_camera EXCEPT ![s] = c]
    /\ subscribers' = [subscribers EXCEPT ![c] = @ \cup {s}]
    /\ sub_from' = [sub_from EXCEPT ![s] = broadcast_count[c]]
    /\ sub_keys' = sub_keys \cup {c}
    /\ sub_gen' = [sub_gen EXCEPT ![s] = "active"]
    /\ UNCHANGED <<sub_queue, broadcast_count, sub_drained>>

\* broadcast(camera_id, frame_bytes): every queue of the camera gets the
\* frame; the frame is named by its number.
Broadcast(c) ==
    /\ broadcast_count[c] < MaxBroadcasts
    /\ broadcast_count' = [broadcast_count EXCEPT ![c] = @ + 1]
    /\ sub_queue' = [s \in Subs |->
                        IF s \in subscribers[c]
                          THEN PutLatest(sub_queue[s], broadcast_count[c] + 1)
                          ELSE sub_queue[s]]
    /\ UNCHANGED <<subscribers, sub_camera, sub_from, sub_drained, sub_keys, sub_gen>>

\* The generator of subscribe(): q.get() takes the oldest frame and yields it.
Consume(s) ==
    /\ sub_gen[s] = "active"
    /\ s \in UNION {subscribers[c] : c \in Cameras}
    /\ sub_queue[s] # <<>>
    /\ sub_queue' = [sub_queue EXCEPT ![s] = Tail(@)]
    /\ sub_drained' = [sub_drained EXCEPT ![s] = TRUE]
    /\ UNCHANGED <<subscribers, sub_camera, broadcast_count, sub_from, sub_keys,
                   sub_gen>>

\* Mutant of KeysAfterRemove: the key of a set that became empty stays.
KeysKept(keys, c, rest) == keys

\* if not self._subscribers[camera_id]: del self._subscribers[camera_id]
KeysAfterRemove(keys, c, rest) == IF rest = {} THEN keys \ {c} ELSE keys

\* The generator of subscribe() is cancelled at queue.get() or closed at its
\* yield (the client went away): the finally block removes its queue from
\* the camera's set and deletes the set when it became empty. The lock is
\* never held across an await, so the block runs without suspending.
Unsubscribe(s) ==
    /\ sub_gen[s] = "active"
    /\ sub_camera[s] # 0
    /\ s \in subscribers[sub_camera[s]]
    /\ subscribers' = [subscribers EXCEPT ![sub_camera[s]] = @ \ {s}]
    /\ sub_keys' = KeysAfterRemove(sub_keys, sub_camera[s],
                                   subscribers[sub_camera[s]] \ {s})
    /\ sub_gen' = [sub_gen EXCEPT ![s] = "closed"]
    /\ UNCHANGED <<sub_queue, sub_camera, broadcast_count, sub_from, sub_drained>>

notStreamVars == <<capVars, alertVars, trackerVars, engineVars, pipeVars, callVars, dbVars,
      recVars,
      handlingVars>>

NextStream ==
    \/ \E s \in Subs, c \in Cameras : Subscribe(s, c) /\ UNCHANGED notStreamVars
    \/ \E c \in Cameras : Broadcast(c) /\ UNCHANGED notStreamVars
    \/ \E s \in Subs : Consume(s) /\ UNCHANGED notStreamVars
    \/ \E s \in Subs : Unsubscribe(s) /\ UNCHANGED notStreamVars

(***************************************************************************)
(* EngineManager: the engine status, start() / stop(), and the cameras     *)
(***************************************************************************)
MaxLive == 2          \* live threads of a kind that are followed per camera
MaxIterations == 1    \* loop iterations of a kind that are counted per camera

\* CameraTask(camera_id, ...) as add_camera creates it, and no task.
\* task: the id is in _cameras; capture / tracker: the field is not None;
\* status: CameraTask.status; thread: the id is in _analysis_threads and in
\* _stop_events. History of the threads spawned for the id: workers are the
\* live analysis threads, signalled those of them whose stop event is set;
\* sources the CameraCapture objects whose capture was started, stopping
\* those of them whose stop() was called; processed the iterations of
\* _analysis_loop that ran to their end, caught those that raised.
\* connected: task.capture.status is CaptureStatus.RUNNING.
NoTask ==
    [task |-> FALSE, capture |-> FALSE, tracker |-> FALSE, status |-> "idle",
     connected |-> FALSE,
     thread |-> FALSE, workers |-> 0, signalled |-> 0, sources |-> 0, stopping |-> 0,
     processed |-> 0, caught |-> 0]

NewTask(r) ==
    [r EXCEPT !.task = TRUE, !.capture = FALSE, !.tracker = FALSE, !.status = "idle",
              !.connected = FALSE]

EngineInit ==
    /\ engine_status = "stopped"
    /\ engine_start = [pc |-> "idle", ret |-> "none", spawned |-> FALSE]
    /\ engine_cameras = [c \in Cameras |-> NoTask]

\* Mutant of EngineRunning: any status but stopped passes.
EngineNotStopped(st) == st # "stopped"

\* start_camera: if self._status != EngineStatus.RUNNING: return False
EngineRunning(st) == st = "running"

\* start_camera past the status check: whether it creates a CameraCapture,
\* a YoloTracker and an analysis thread for the task r. It does not when
\* there is no task, or when the task has a capture and its status is
\* running. (capture.start() of a new CameraCapture returns True.)
Spawns(r) == r.task /\ ~(r.capture /\ r.status = "running")

\* The task after start_camera created capture, tracker and thread; the new
\* thread and stop event replace the entries of the id.
Started(r) ==
    [r EXCEPT !.capture = TRUE, !.tracker = TRUE, !.thread = TRUE,
              !.connected = FALSE, !.workers = @ + 1, !.sources = @ + 1]

\* stop_camera: the stop event of the id's entry is set and the entries are
\* deleted after the join of at most 2 seconds; the capture of the task is
\* stopped and capture, tracker and status of the task are reset.
Stopped(r) ==
    LET r1 == IF r.thread
                THEN [r EXCEPT !.thread = FALSE, !.signalled = @ + 1]
                ELSE r
    IN  IF r1.task /\ r1.capture
          THEN [r1 EXCEPT !.capture = FALSE, !.tracker = FALSE,
                          !.connected = FALSE,
                          !.status = "stopped", !.stopping = @ + 1]
          ELSE r1

\* The bound on the threads followed for one camera id.
CanSpawn(r) == r.workers < MaxLive /\ r.sources < MaxLive

\* EngineManager.start() up to its first await: nothing to do when running;
\* otherwise the status is starting and the models are being loaded.
EngineStartBegin ==
    /\ engine_start.pc = "idle"
    /\ engine_status # "running"
    /\ engine_status' = "starting"
    /\ engine_start' = [pc |-> "loading", ret |-> "none", spawned |-> FALSE]
    /\ UNCHANGED engine_cameras

\* The rest of start(). Loading the models or starting the recognition
\* client raised: status error, return False. Otherwise the status is
\* running, start_all_cameras() starts every camera of _cameras and start()
\* returns True.
EngineStartFinish(ok) ==
    /\ engine_start.pc = "loading"
    /\ IF ok
         THEN /\ \A c \in Cameras :
                    Spawns(engine_cameras[c]) => CanSpawn(engine_cameras[c])
              /\ engine_status' = "running"
              /\ engine_cameras' = [c \in Cameras |->
                    IF Spawns(engine_cameras[c]) THEN Started(engine_cameras[c])
                    ELSE engine_cameras[c]]
              /\ engine_start' = [pc |-> "idle", ret |-> "true",
                                  spawned |-> engine_start.spawned
                                     \/ \E c \in Cameras : Spawns(engine_cameras[c])]
         ELSE /\ engine_status' = "error"
              /\ engine_start' = [engine_start EXCEPT !.pc = "idle", !.ret = "false"]
              /\ UNCHANGED engine_cameras

\* EngineManager.stop(): nothing to do when stopped; otherwise every camera
\* is stopped and the status is stopped.
EngineStop ==
    /\ engine_status # "stopped"
    /\ engine_status' = "stopped"
    /\ engine_cameras' = [c \in Cameras |-> Stopped(engine_cameras[c])]
    /\ UNCHANGED engine_start

\* start_camera(camera_id); a call that returns without effect is left out.
StartCamera(c) ==
    /\ EngineRunning(engine_status)
    /\ Spawns(engine_cameras[c])
    /\ CanSpawn(engine_cameras[c])
    /\ engine_cameras' = [engine_cameras EXCEPT ![c] = Started(@)]
    /\ engine_start' = [engine_start EXCEPT !.spawned = TRUE]
    /\ UNCHANGED engine_status

\* add_camera(camera_id, ...): refused when the id is registered; the new
\* task is started when the engine is running.
AddCamera(c) ==
    /\ ~engine_cameras[c].task
    /\ EngineRunning(engine_status) => CanSpawn(engine_cameras[c])
    /\ engine_cameras' = [engine_cameras EXCEPT ![c] =
          IF EngineRunning(engine_status) THEN Started(NewTask(@)) ELSE NewTask(@)]
    /\ engine_start' = [engine_start EXCEPT !.spawned =
                          @ \/ EngineRunning(engine_status)]
    /\ UNCHANGED engine_status

\* stop_camera(camera_id)
StopCamera(c) ==
    /\ engine_cameras[c] # Stopped(engine_cameras[c])
    /\ engine_cameras' = [engine_cameras EXCEPT ![c] = Stopped(@)]
    /\ UNCHANGED <<engine_status, engine_start>>

\* remove_camera(camera_id): stop_camera, then the task is deleted.
RemoveCamera(c) ==
    /\ engine_cameras[c].task
    /\ engine_cameras' = [engine_cameras EXCEPT ![c] =
          [Stopped(@) EXCEPT !.task = FALSE, !.status = "idle"]]
    /\ UNCHANGED <<engine_status, engine_start>>

\* What one iteration of _analysis_loop can do: run to its end (with a frame
\* or with none), or raise from get_frame, the tracker, the encoder or the
\* handling of the events.
Outcomes == {"ok", "raise"}

\* Mutant of AnalysisSurvives: an iteration that raises ends the thread.
AnalysisSurvivesOnlyOk(outcome) == outcome = "ok"

\* try: ... except Exception as e: logger.error(...); time.sleep(1)
\* The body of the loop is inside the try; the thread goes on to the next
\* test of the stop event whatever the iteration did.
AnalysisSurvives(outcome) == outcome \in Outcomes

\* One iteration of the while loop of _analysis_loop in a live analysis
\* thread of camera c.
AnalysisFrame(c, outcome) ==
    LET r == engine_cameras[c]
    IN  /\ r.workers > 0
        /\ IF outcome = "ok" THEN r.processed < MaxIterations
                             ELSE r.caught < MaxIterations
        /\ engine_cameras' = [engine_cameras EXCEPT ![c] =
              LET r1 == IF outcome = "ok"
                          THEN [r EXCEPT !.processed = @ + 1]
                          ELSE [r EXCEPT !.caught = @ + 1]
              IN  IF AnalysisSurvives(outcome) THEN r1
                  ELSE [r1 EXCEPT !.workers = @ - 1,
                                  !.signalled = Min(@, r.workers - 1)]]
        /\ UNCHANGED <<engine_status, engine_start>>

\* An analysis thread whose stop event is set leaves _analysis_loop.
AnalysisExit(c) ==
    /\ engine_cameras[c].signalled > 0
    /\ engine_cameras' = [engine_cameras EXCEPT ![c] =
          [@ EXCEPT !.workers = @ - 1, !.signalled = @ - 1]]
    /\ UNCHANGED <<engine_status, engine_start>>

\* The capture thread of a CameraCapture whose stop() was called ends.
SourceExit(c) ==
    /\ engine_cameras[c].stopping > 0
    /\ engine_cameras' = [engine_cameras EXCEPT ![c] =
          [@ EXCEPT !.sources = @ - 1, !.stopping = @ - 1]]
    /\ UNCHANGED <<engine_status, engine_start>>

\* _connect of the capture thread of the task's CameraCapture succeeded:
\* self._set_status(CaptureStatus.RUNNING); _on_camera_status_change hands
\* the new status to the status callback and leaves the task as it is.
SourceConnect(c) ==
    /\ engine_cameras[c].capture
    /\ ~engine_cameras[c].connected
    /\ engine_cameras' = [engine_cameras EXCEPT ![c].connected = TRUE]
    /\ UNCHANGED <<engine_status, engine_start>>

\* The status of the CameraCapture of the task r is RUNNING.
SourceRunning(r) == r.task /\ r.capture /\ r.connected

\* get_engine_stats: running_count = sum(1 for c in self._cameras.values()
\*                                      if c.status == CaptureStatus.RUNNING)
RunningCameraCount ==
    Cardinality({c \in Cameras :
        engine_cameras[c].task /\ engine_cameras[c].status = "running"})

\* get_camera_status / get_all_camera_status:
\*   "running" if cam.status == CaptureStatus.RUNNING else "stopped"
ReportedStatus(r) == IF r.status = "running" THEN "running" ELSE "stopped"

notEngineVars == <<capVars, alertVars, trackerVars, streamVars, pipeVars, callVars, dbVars,
      recVars,
      handlingVars>>

NextEngine ==
    \/ EngineStartBegin /\ UNCHANGED notEngineVars
    \/ \E ok \in BOOLEAN : EngineStartFinish(ok) /\ UNCHANGED notEngineVars
    \/ EngineStop /\ UNCHANGED notEngineVars
    \/ \E c \in Cameras : StartCamera(c) /\ UNCHANGED notEngineVars
    \/ \E c \in Cameras : AddCamera(c) /\ UNCHANGED notEngineVars
    \/ \E c \in Cameras : StopCamera(c) /\ UNCHANGED notEngineVars
    \/ \E c \in Cameras : RemoveCamera(c) /\ UNCHANGED notEngineVars
    \/ \E c \in Cameras, outcome \in Outcomes :
          AnalysisFrame(c, outcome) /\ UNCHANGED notEngineVars
    \/ \E c \in Cameras : AnalysisExit(c) /\ UNCHANGED notEngineVars
    \/ \E c \in Cameras : SourceExit(c) /\ UNCHANGED notEngineVars
    \/ \E c \in Cameras : SourceConnect(c) /\ UNCHANGED notEngineVars

(***************************************************************************)
(* The pipelines of all cameras side by side: per camera one capture       *)
(* thread, one frame queue and one analysis thread; all analysis threads   *)
(* call the one CompreFaceClient                                           *)
(***************************************************************************)
MaxPipelineQueue == 2           \* frames a pipeline's queue holds
MaxLimit == 2                   \* largest limit passed to update_limit
MaxUpdates == 2                 \* update_limit calls that replace the semaphore
CONCURRENT_LIMIT_DEFAULT == 1   \* settings.CONCURRENT_LIMIT_DEFAULT

Generations == 0 .. MaxUpdates

\* A camera whose capture is running, with an empty queue and its analysis
\* thread at the top of its loop. sem: the semaphore object the `async with`
\* of the worker's _request call evaluated (its generation).
NewPipeline == [source |-> "running", queue |-> 0, worker |-> "idle", sem |-> 0]

\* CompreFaceClient after start(): asyncio.Semaphore(self._concurrent_limit).
\* gen: the generation of the object self._semaphore refers to; value: the
\* _value of every semaphore object created so far.
PipeInit ==
    /\ pipelines = [c \in Cameras |-> NewPipeline]
    /\ recognition = [limit |-> CONCURRENT_LIMIT_DEFAULT, gen |-> 0,
                      value |-> [g \in Generations |->
                                   IF g = 0 THEN CONCURRENT_LIMIT_DEFAULT ELSE 0]]

\* _capture_loop: the capture thread reads one frame of its own camera and
\* puts it into its own queue (the oldest frame is dropped when full).
SourceMayCapture(c) == pipelines[c].source = "running"

SourceCapture(c) ==
    /\ SourceMayCapture(c)
    /\ pipelines[c].queue < MaxPipelineQueue
    /\ pipelines' = [pipelines EXCEPT ![c].queue = @ + 1]
    /\ UNCHANGED recognition

\* _capture_loop: too many failed reads, the thread enters _reconnect().
SourceFail(c) ==
    /\ SourceMayCapture(c)
    /\ pipelines' = [pipelines EXCEPT ![c].source = "reconnecting"]
    /\ UNCHANGED recognition

\* _reconnect: while not self._stop_event.is_set(): wait, then _connect().
SourceMayReconnect(c) == pipelines[c].source = "reconnecting"

\* One round of _reconnect in which _connect() succeeds. (A round in which
\* it fails leaves the thread in the loop.)
SourceReconnect(c) ==
    /\ SourceMayReconnect(c)
    /\ pipelines' = [pipelines EXCEPT ![c].source = "running"]
    /\ UNCHANGED recognition

\* Mutant of WorkerMayDequeue: the workers share one lock with the capture
\* threads, which a capture thread holds while it is inside _reconnect.
WorkerMayDequeueUnderLock(c) ==
    /\ pipelines[c].worker = "idle"
    /\ pipelines[c].queue > 0
    /\ \A a \in Cameras : pipelines[a].source # "reconnecting"

\* _analysis_loop: task.capture.get_frame(timeout=0.5) of the worker's own
\* task returns a frame when the task's own queue has one. (With an empty
\* queue it returns None after the timeout and the loop continues.)
WorkerMayDequeue(c) ==
    /\ pipelines[c].worker = "idle"
    /\ pipelines[c].queue > 0

WorkerDequeue(c) ==
    /\ WorkerMayDequeue(c)
    /\ pipelines' = [pipelines EXCEPT ![c].queue = @ - 1, ![c].worker = "tracking"]
    /\ UNCHANGED recognition

\* task.tracker.process(...) and _handle_analysis_events: with no face event
\* the iteration ends; with a face event recognize_face is called, whose
\* _request enters `async with self._semaphore` on the current semaphore.
WorkerProcess(c, face) ==
    /\ pipelines[c].worker = "tracking"
    /\ pipelines' = [pipelines EXCEPT
          ![c].worker = IF face THEN "acquire" ELSE "idle",
          ![c].sem = IF face THEN recognition.gen ELSE 0]
    /\ UNCHANGED recognition

\* Semaphore.acquire, first half: a semaphore whose _value is 0 is locked,
\* and the caller waits for a release.
SemaphoreFree(g) == recognition.value[g] > 0

WorkerAcquire(c) ==
    /\ pipelines[c].worker = "acquire"
    /\ SemaphoreFree(pipelines[c].sem)
    /\ pipelines' = [pipelines EXCEPT ![c].worker = "take"]
    /\ UNCHANGED recognition

\* Semaphore.acquire, second half: self._value -= 1. The semaphore is an
\* asyncio object used from the event loops of several threads, so another
\* thread can run between the test and the decrement. The request is then
\* sent to the backend.
WorkerTake(c) ==
    /\ pipelines[c].worker = "take"
    /\ pipelines' = [pipelines EXCEPT ![c].worker = "calling"]
    /\ recognition' = [recognition EXCEPT !.value[pipelines[c].sem] = @ - 1]

\* The backend call returned or raised; leaving `async with` releases the
\* semaphore object that was acquired.
WorkerRelease(c) ==
    /\ pipelines[c].worker = "calling"
    /\ pipelines' = [pipelines EXCEPT ![c].worker = "idle", ![c].sem = 0]
    /\ recognition' = [recognition EXCEPT !.value[pipelines[c].sem] = @ + 1]

\* update_limit: if limit > 0
LimitAccepted(limit) == limit > 0

\* update_limit(limit): the limit is stored and self._semaphore is replaced
\* by a new asyncio.Semaphore(limit). (A call with limit <= 0 changes
\* nothing and is left out.)
UpdateLimit(limit) ==
    /\ LimitAccepted(limit)
    /\ recognition.gen < MaxUpdates
    /\ recognition' = [limit |-> limit, gen |-> recognition.gen + 1,
                       value |-> [recognition.value EXCEPT
                                     ![recognition.gen + 1] = limit]]
    /\ UNCHANGED pipelines

notPipeVars == <<capVars, alertVars, trackerVars, streamVars, engineVars, callVars, dbVars,
      recVars,
      handlingVars>>

NextPipelines ==
    \/ \E c \in Cameras : SourceCapture(c) /\ UNCHANGED notPipeVars
    \/ \E c \in Cameras : SourceFail(c) /\ UNCHANGED notPipeVars
    \/ \E c \in Cameras : SourceReconnect(c) /\ UNCHANGED notPipeVars
    \/ \E c \in Cameras : WorkerDequeue(c) /\ UNCHANGED notPipeVars
    \/ \E c \in Cameras, face \in BOOLEAN :
          WorkerProcess(c, face) /\ UNCHANGED notPipeVars
    \/ \E c \in Cameras : WorkerAcquire(c) /\ UNCHANGED notPipeVars
    \/ \E c \in Cameras : WorkerTake(c) /\ UNCHANGED notPipeVars
    \/ \E c \in Cameras : WorkerRelease(c) /\ UNCHANGED notPipeVars
    \/ \E limit \in 0 .. MaxLimit : UpdateLimit(limit) /\ UNCHANGED notPipeVars

(***************************************************************************)
(* EngineManager operations as their caller sees them: the value returned  *)
(***************************************************************************)
\* The keys of `mapping` in update_config.
ConfigKeys == {"face_similarity_threshold", "face_detection_confidence",
               "alert_cooldown_seconds", "data_retention_days",
               "capture_quality", "concurrent_limit"}

\* The keys update_config is called with: those of the mapping and one that
\* is not in it.
CallKeys == ConfigKeys \cup {"no_such_key"}

\* The values update_config is called with: text that is a decimal number,
\* given in tenths, and text that is no number.
ConfigValues ==
    {[numeric |-> TRUE, tenths |-> n] : n \in {-10, 0, 5, 19, 20}}
      \cup {[numeric |-> FALSE, tenths |-> 0]}

\* float(value) raises ValueError for text that is no number.
Coercible(value) == value.numeric

\* int(float(value)): the fraction is cut off, towards zero.
IntOfFloat(value) ==
    IF value.tenths >= 0 THEN value.tenths \div 10
    ELSE -((-value.tenths) \div 10)

CallInit ==
    /\ engine_ret = [op |-> "none", found |-> FALSE, changed |-> FALSE,
                     value |-> "None"]
    /\ settings = [concurrent_limit |-> CONCURRENT_LIMIT_DEFAULT]

\* stop_camera has no return statement.
StopCameraReturn(registered) == "None"

\* remove_camera: return True after `del self._cameras[camera_id]`, return
\* False when the id is not in _cameras.
RemoveCameraReturn(registered) == IF registered THEN "True" ELSE "False"

\* update_config has no return statement; an exception is logged.
UpdateConfigReturn(known) == "None"

\* stop_camera(camera_id) with any id.
CallStopCamera(c) ==
    /\ engine_cameras' = [engine_cameras EXCEPT ![c] = Stopped(@)]
    /\ engine_ret' = [op |-> "stop_camera", found |-> engine_cameras[c].task,
                      changed |-> engine_cameras[c] # Stopped(engine_cameras[c]),
                      value |-> StopCameraReturn(engine_cameras[c].task)]
    /\ UNCHANGED <<engine_status, engine_start, settings, pipeVars>>

\* remove_camera(camera_id) with any id.
CallRemoveCamera(c) ==
    /\ engine_cameras' = [engine_cameras EXCEPT ![c] =
          IF @.task THEN [Stopped(@) EXCEPT !.task = FALSE, !.status = "idle"]
          ELSE Stopped(@)]
    /\ engine_ret' = [op |-> "remove_camera", found |-> engine_cameras[c].task,
                      changed |-> engine_cameras[c].task,
                      value |-> RemoveCameraReturn(engine_cameras[c].task)]
    /\ UNCHANGED <<engine_status, engine_start, settings, pipeVars>>

\* update_config(key, value): a key of the mapping sets its setting to the
\* converted value; any other key does nothing. For "concurrent_limit" the
\* setting is CONCURRENT_LIMIT_DEFAULT (an int field: int(float(value))) and
\* after the setattr compreface_client.update_limit(int(float(value))) is
\* called. A conversion that raises ends the call in the except clause, which
\* logs. (The settings of the other keys are not followed.)
CallUpdateConfig(key, value) ==
    /\ engine_ret' = [op |-> "update_config", found |-> key \in ConfigKeys,
                      changed |-> key \in ConfigKeys /\ Coercible(value),
                      value |-> UpdateConfigReturn(key \in ConfigKeys)]
    /\ IF key = "concurrent_limit" /\ Coercible(value)
         THEN /\ settings' = [settings EXCEPT !.concurrent_limit = IntOfFloat(value)]
              /\ IF LimitAccepted(IntOfFloat(value))
                   THEN UpdateLimit(IntOfFloat(value))
                   ELSE UNCHANGED pipeVars
         ELSE UNCHANGED <<settings, pipeVars>>
    /\ UNCHANGED engineVars

notCallVars == <<capVars, alertVars, trackerVars, streamVars, dbVars,
      recVars,
      handlingVars>>

NextCalls ==
    \/ EngineStartBegin /\ UNCHANGED notEngineVars
    \/ \E ok \in BOOLEAN : EngineStartFinish(ok) /\ UNCHANGED notEngineVars
    \/ \E c \in Cameras : AddCamera(c) /\ UNCHANGED notEngineVars
    \/ \E c \in Cameras : CallStopCamera(c) /\ UNCHANGED notCallVars
    \/ \E c \in Cameras : CallRemoveCamera(c) /\ UNCHANGED notCallVars
    \/ \E key \in CallKeys, value \in ConfigValues :
          CallUpdateConfig(key, value) /\ UNCHANGED notCallVars
    \/ \E c \in Cameras : AnalysisExit(c) /\ UNCHANGED notEngineVars
    \/ \E c \in Cameras : SourceExit(c) /\ UNCHANGED notEngineVars

(***************************************************************************)
(* FaceDatabase: the registry of persons and their embeddings, the feature *)
(* matrix built from it, and recognize()                                   *)
(***************************************************************************)
MaxPersons == 2           \* person ids
MaxEmbeddings == 2        \* embeddings in one list
similarity_threshold == 600   \* FaceDatabase(similarity_threshold=0.6), in 1/1000

PersonIds == 1 .. MaxPersons
Groups == {1, 2}
NoGroup == 0
Vectors == {<<1, 0>>, <<0, 1>>, <<1, 1>>}
Queries == Vectors \cup {<<0, 0>>}
EmbeddingLists == UNION {[1..n -> Vectors] : n \in 0 .. MaxEmbeddings}

Dot(u, v) == u[1] * v[1] + u[2] * v[2]

\* The integer square root of x, searched between lo and hi.
RECURSIVE SqrtBetween(_, _, _)
SqrtBetween(x, lo, hi) ==
    IF lo >= hi THEN lo
    ELSE LET mid == (lo + hi + 1) \div 2
         IN  IF mid * mid <= x THEN SqrtBetween(x, mid, hi)
             ELSE SqrtBetween(x, lo, mid - 1)

ISqrt(x) == SqrtBetween(x, 0, 1000)

\* _cosine_similarity of a query and one row, in 1/1000 (rounded down). The
\* norms are clipped from below, so a zero vector has similarity 0.
Cosine(q, e) ==
    IF Dot(q, q) = 0 \/ Dot(e, e) = 0 \/ Dot(q, e) = 0 THEN 0
    ELSE ISqrt((1000000 * Dot(q, e) * Dot(q, e)) \div (Dot(q, q) * Dot(e, e)))

\* MatchResult(person_id=-1, ..., is_stranger=True)
StrangerMatch(similarity) ==
    [person_id |-> -1, group_id |-> NoGroup, similarity |-> similarity,
     is_stranger |-> TRUE, raised |-> FALSE]

KnownMatch(person, similarity) ==
    [person_id |-> person.person_id, group_id |-> person.group_id,
     similarity |-> similarity, is_stranger |-> FALSE, raised |-> FALSE]

\* recognize() left by an exception (a KeyError of self._persons[...]).
RaisedMatch ==
    [person_id |-> -1, group_id |-> NoGroup, similarity |-> 0,
     is_stranger |-> FALSE, raised |-> TRUE]

\* The rows and ids _rebuild_feature_matrix collects from the persons, in
\* the order of the dict (insertion order).
RECURSIVE Rows(_)
Rows(persons) ==
    IF persons = <<>> THEN <<>>
    ELSE Rows(SubSeq(persons, 1, Len(persons) - 1))
           \o [i \in 1 .. Len(persons[Len(persons)].embeddings) |->
                 [id |-> persons[Len(persons)].person_id,
                  row |-> persons[Len(persons)].embeddings[i]]]

\* Mutant of Rebuild: with no embedding left nothing is rebuilt.
RebuildIfAny(db, persons) ==
    LET rows == Rows(persons)
    IN  IF rows = <<>> THEN [db EXCEPT !.persons = persons]
        ELSE [persons |-> persons, has_matrix |-> TRUE,
              feature_matrix |-> [i \in 1 .. Len(rows) |-> rows[i].row],
              feature_ids |-> [i \in 1 .. Len(rows) |-> rows[i].id],
              total_embeddings |-> Len(rows)]

\* The database with `persons` after _rebuild_feature_matrix: the matrix is
\* None when there is no embedding.
Rebuild(db, persons) ==
    LET rows == Rows(persons)
    IN  [persons |-> persons, has_matrix |-> rows # <<>>,
         feature_matrix |-> [i \in 1 .. Len(rows) |-> rows[i].row],
         feature_ids |-> [i \in 1 .. Len(rows) |-> rows[i].id],
         total_embeddings |-> Len(rows)]

HasPerson(db, p) == \E i \in 1 .. Len(db.persons) : db.persons[i].person_id = p

IndexOfPerson(db, p) == CHOOSE i \in 1 .. Len(db.persons) : db.persons[i].person_id = p

DbInit ==
    /\ face_db = [persons |-> <<>>, has_matrix |-> FALSE, feature_matrix |-> <<>>,
                  feature_ids |-> <<>>, total_embeddings |-> 0]
    /\ db_match = [called |-> FALSE, empty |-> FALSE, result |-> StrangerMatch(0)]

\* FaceDatabase.recognize(embedding) on the database db.
DbRecognize(db, q) ==
    IF ~db.has_matrix \/ Len(db.feature_ids) = 0 THEN StrangerMatch(0)
    ELSE LET sims == [i \in 1 .. Len(db.feature_matrix) |->
                        Cosine(q, db.feature_matrix[i])]
             max_idx == CHOOSE i \in 1 .. Len(sims) :
                           /\ \A j \in 1 .. Len(sims) : sims[j] <= sims[i]
                           /\ \A j \in 1 .. i - 1 : sims[j] < sims[i]
         IN  IF sims[max_idx] < similarity_threshold
               THEN StrangerMatch(sims[max_idx])
             ELSE IF ~HasPerson(db, db.feature_ids[max_idx]) THEN RaisedMatch
             ELSE KnownMatch(db.persons[IndexOfPerson(db, db.feature_ids[max_idx])],
                             sims[max_idx])

\* add_person: refused without embeddings; the entry of the id is set (a new
\* id goes to the end of the dict) and the matrix rebuilt.
AddPerson(p, g, embeddings) ==
    /\ embeddings # <<>>
    /\ LET person == [person_id |-> p, group_id |-> g, embeddings |-> embeddings]
           persons == IF HasPerson(face_db, p)
                        THEN [face_db.persons EXCEPT ![IndexOfPerson(face_db, p)] = person]
                        ELSE Append(face_db.persons, person)
       IN  face_db' = Rebuild(face_db, persons)
    /\ UNCHANGED db_match

\* remove_person of a registered id.
RemovePerson(p) ==
    /\ HasPerson(face_db, p)
    /\ LET k == IndexOfPerson(face_db, p)
           persons == SubSeq(face_db.persons, 1, k - 1)
                        \o SubSeq(face_db.persons, k + 1, Len(face_db.persons))
       IN  face_db' = Rebuild(face_db, persons)
    /\ UNCHANGED db_match

\* update_person_embeddings of a registered id; the new list may be empty.
UpdatePersonEmbeddings(p, embeddings) ==
    /\ HasPerson(face_db, p)
    /\ face_db.persons[IndexOfPerson(face_db, p)].embeddings # embeddings
    /\ face_db' = Rebuild(face_db,
          [face_db.persons EXCEPT ![IndexOfPerson(face_db, p)].embeddings = embeddings])
    /\ UNCHANGED db_match

\* clear()
ClearDatabase ==
    /\ face_db.persons # <<>>
    /\ face_db' = [persons |-> <<>>, has_matrix |-> FALSE, feature_matrix |-> <<>>,
                   feature_ids |-> <<>>, total_embeddings |-> 0]
    /\ UNCHANGED db_match

\* The registry holds no embedding.
NoEmbeddings(db) == \A i \in 1 .. Len(db.persons) : db.persons[i].embeddings = <<>>

\* A recognize(embedding) call.
RecognizeEmbedding(q) ==
    /\ db_match' = [called |-> TRUE, empty |-> NoEmbeddings(face_db),
                    result |-> DbRecognize(face_db, q)]
    /\ db_match' # db_match
    /\ UNCHANGED face_db

notDbVars == <<capVars, alertVars, trackerVars, streamVars, engineVars, pipeVars,
               callVars, recVars,
      handlingVars>>

NextFaceDatabase ==
    \/ \E p \in PersonIds, g \in Groups, embeddings \in EmbeddingLists :
          AddPerson(p, g, embeddings) /\ UNCHANGED notDbVars
    \/ \E p \in PersonIds : RemovePerson(p) /\ UNCHANGED notDbVars
    \/ \E p \in PersonIds, embeddings \in EmbeddingLists :
          UpdatePersonEmbeddings(p, embeddings) /\ UNCHANGED notDbVars
    \/ ClearDatabase /\ UNCHANGED notDbVars
    \/ \E q \in Queries : RecognizeEmbedding(q) /\ UNCHANGED notDbVars

(***************************************************************************)
(* FaceRecognizer.recognize with its AlertCooldownManager, and the decision *)
(* the engine manager makes for a recognised face                          *)
(***************************************************************************)
alert_cooldown == 2       \* RecognizerConfig.alert_cooldown, in seconds
MaxRecTime == 7           \* the clock stops here

\* RecognizerConfig.blacklist_group_ids
blacklist_group_ids == {1}

\* The match results _database.recognize hands to recognize(): a stranger,
\* or a person of a group.
MatchResults ==
    {StrangerMatch(0)}
      \cup {KnownMatch([person_id |-> p, group_id |-> g], 1000) :
              p \in PersonIds, g \in Groups}

\* The match results of a registry in which person p belongs to group p.
RegistryMatches ==
    {m \in MatchResults : ~m.is_stranger => m.group_id = m.person_id}

\* person_id of the cooldown calls: None for a stranger (written 0).
NoPersonId == 0

\* Mutant of CooldownKey: the key leaves the camera out.
CooldownKeyOfPerson(camera_id, person_id) == <<0, person_id>>

\* key = (camera_id, str(person_id) if person_id else "stranger"); the
\* person ids are positive, so only None is "stranger".
CooldownKey(camera_id, person_id) == <<camera_id, person_id>>

\* The keys of Dict[Tuple[int, str], float] that are followed.
CooldownKeys == (Cameras \cup {0}) \X (PersonIds \cup {NoPersonId})

\* _last_alert_time.get(key, 0): a key without entry reads as 0.
NoAlertTime == 0

\* The clock starts late enough for a first alert to pass the test below,
\* as time.time() does.
RecInit(setting) ==
    /\ recognizer = [alert_on_stranger |-> setting,
                     last_alert_time |-> [k \in CooldownKeys |-> NoAlertTime]]
    /\ rec_now = alert_cooldown
    /\ recognized = [site |-> "none", camera_id |-> 0, match |-> StrangerMatch(0),
                     decided |-> FALSE, should_alert |-> FALSE,
                     alert_type |-> "stranger", at |-> 0]
    /\ alert_history = [k \in CooldownKeys |-> <<>>]

\* _determine_alert_type(match_result)
DetermineAlertType(match, alert_on_stranger) ==
    IF match.is_stranger
      THEN [should_alert |-> alert_on_stranger, alert_type |-> "stranger"]
    ELSE IF match.group_id \in blacklist_group_ids
      THEN [should_alert |-> TRUE, alert_type |-> "blacklist"]
    ELSE [should_alert |-> FALSE, alert_type |-> "known"]

\* can_alert: if current_time - last_time < self.cooldown_seconds: return False
CanAlert(last_alert_time, key, current_time) ==
    ~(current_time - last_alert_time[key] < alert_cooldown)

\* recognize(image, camera_id) with check_cooldown left at its default, for
\* one detected face: the match, the decision, then the cooldown test, which
\* records the alert when it lets it through.
RecognizeFace(camera_id, match) ==
    LET d == DetermineAlertType(match, recognizer.alert_on_stranger)
        person_id == IF match.is_stranger THEN NoPersonId ELSE match.person_id
        key == CooldownKey(camera_id, person_id)
        pass == d.should_alert /\ CanAlert(recognizer.last_alert_time, key, rec_now)
    IN  /\ recognizer' = [recognizer EXCEPT !.last_alert_time[key] =
                            IF pass THEN rec_now ELSE @]
        /\ recognized' = [site |-> "recognizer", camera_id |-> camera_id,
                          match |-> match,
                          decided |-> d.should_alert, should_alert |-> pass,
                          alert_type |-> d.alert_type, at |-> rec_now]
        /\ recognized' # recognized \/ pass
        /\ alert_history' = [alert_history EXCEPT
              ![<<camera_id, person_id>>] =
                 IF ~pass THEN @
                 ELSE IF @ = <<>> THEN <<rec_now>>
                 ELSE <<@[Len(@)], rec_now>>]
        /\ UNCHANGED rec_now

\* cleanup_expired(): the entries older than twice the cooldown are deleted.
\* (AlertCooldownManager.clear(), which forgets every alert, is called by
\* nothing in the repository and is left out.)
CleanupExpired ==
    /\ \E k \in CooldownKeys :
          /\ recognizer.last_alert_time[k] # NoAlertTime
          /\ rec_now - recognizer.last_alert_time[k] > alert_cooldown * 2
    /\ recognizer' = [recognizer EXCEPT !.last_alert_time =
          [k \in CooldownKeys |->
              IF rec_now - @[k] > alert_cooldown * 2 THEN NoAlertTime ELSE @[k]]]
    /\ UNCHANGED <<rec_now, recognized, alert_history>>

\* A second passes.
RecTick ==
    /\ rec_now < MaxRecTime
    /\ rec_now' = rec_now + 1
    /\ UNCHANGED <<recognizer, recognized, alert_history>>

\* _handle_analysis_events for a FACE_DETECTED event whose face the backend
\* matched as `match`: is_known is all the decision takes from the match;
\* alert_data is built and handed to the alert callback for every event. The
\* engine has no alert-on-stranger setting; an event of level info is the one
\* that is recorded for information only.
EngineDecide(camera_id, match) ==
    LET d == AlertDecision("FACE_DETECTED", ~match.is_stranger)
    IN  /\ recognized' = [site |-> "engine", camera_id |-> camera_id,
                          match |-> match,
                          decided |-> d.alert_level # "info",
                          should_alert |-> d.alert_level # "info",
                          alert_type |-> d.alert_type, at |-> rec_now]
        /\ recognized' # recognized
        /\ UNCHANGED <<recognizer, rec_now, alert_history>>

notRecVars == <<capVars, alertVars, trackerVars, streamVars, engineVars, pipeVars,
                callVars, dbVars,
      handlingVars>>

\* FaceRecognizer on its own.
NextRecognizer ==
    \/ \E c \in Cameras, match \in RegistryMatches :
          RecognizeFace(c, match) /\ UNCHANGED notRecVars
    \/ CleanupExpired /\ UNCHANGED notRecVars
    \/ RecTick /\ UNCHANGED notRecVars

\* The two places that decide what a match result means.
NextDecisions ==
    \/ \E c \in Cameras, match \in MatchResults :
          RecognizeFace(c, match) /\ UNCHANGED notRecVars
    \/ \E c \in Cameras, match \in MatchResults :
          EngineDecide(c, match) /\ UNCHANGED notRecVars

(***************************************************************************)
(* _handle_analysis_events: what one analysis thread does with the events  *)
(* that process() returned for a frame                                     *)
(***************************************************************************)
MaxReturned == 4       \* events process() returns to the worker in all
MaxFrameEvents == 2    \* events process() returns for one frame

EventTypes == {"FACE_DETECTED", "BODY_DETECTED"}

\* The non-empty event lists process() can return for one frame.
FrameEvents ==
    UNION {[1 .. n -> EventTypes] : n \in 1 .. MaxFrameEvents}

\* What happens to one event inside the for loop: every step runs to its
\* end; os.makedirs or cv2.imwrite of _save_event_images raises; or the
\* recognition step raises (cv2.imencode of the face image, or
\* resp['result'][0]['subjects'][0] on an answer without subjects). The
\* recognition step runs for FACE_DETECTED events only.
HandlingOutcomes(type) ==
    IF type = "FACE_DETECTED" THEN {"ok", "save_raises", "recognize_raises"}
    ELSE {"ok", "save_raises"}

HandlingInit ==
    /\ returned = <<>>
    /\ pending = <<>>
    /\ delivered = <<>>

\* _analysis_loop: task.tracker.process(...) returned the events evs for a
\* frame and _handle_analysis_events is entered with them.
WorkerFrameEvents(evs) ==
    /\ pending = <<>>
    /\ Len(returned) + Len(evs) <= MaxReturned
    /\ returned' = returned \o evs
    /\ pending' = [i \in 1 .. Len(evs) |-> Len(returned) + i]
    /\ delivered' = delivered \o [i \in 1 .. Len(evs) |-> 0]

\* for event in events: the body has no try of its own. An event whose
\* steps all run is handed over with
\* asyncio.run_coroutine_threadsafe(self._on_alert(alert_data), ...) and
\* the loop goes on to the next event; an exception leaves the for loop and
\* _handle_analysis_events and is caught and logged by _analysis_loop,
\* which goes on to the next frame.
HandleEvent(outcome) ==
    /\ pending # <<>>
    /\ outcome \in HandlingOutcomes(returned[Head(pending)])
    /\ IF outcome = "ok"
         THEN /\ delivered' = [delivered EXCEPT ![Head(pending)] = @ + 1]
              /\ pending' = Tail(pending)
         ELSE /\ pending' = <<>>
              /\ UNCHANGED delivered
    /\ UNCHANGED returned

notHandlingVars == <<capVars, alertVars, trackerVars, streamVars, engineVars, pipeVars,
      callVars, dbVars, recVars>>

NextHandling ==
    \/ \E evs \in FrameEvents : WorkerFrameEvents(evs) /\ UNCHANGED notHandlingVars
    \/ \E outcome \in {"ok", "save_raises", "recognize_raises"} :
          HandleEvent(outcome) /\ UNCHANGED notHandlingVars

InitOthers ==
    /\ AlertInit
    /\ TrackerInit
    /\ StreamInit
    /\ EngineInit
    /\ PipeInit
    /\ CallInit
    /\ DbInit
    /\ RecInit(TRUE)
    /\ HandlingInit

InitCapture == (\E cfg \in Configs : CapInit(cfg)) /\ InitOthers

SpecCapture == InitCapture /\ [][NextCapture]_vars

InitDefault == CapInit(DefaultConfig) /\ InitOthers

\* The frame source with the reconnection fields the engine manager uses
\* (the defaults) and every queue size.
InitSource ==
    /\ \E cfg \in Configs :
          /\ cfg.reconnect_interval = DefaultConfig.reconnect_interval
          /\ cfg.max_reconnect_interval = DefaultConfig.max_reconnect_interval
          /\ cfg.reconnect_backoff = DefaultConfig.reconnect_backoff
          /\ CapInit(cfg)
    /\ InitOthers

SpecSource == InitSource /\ [][NextSource]_vars

SpecAlert == InitDefault /\ [][NextAlert]_vars

SpecLifecycle == InitDefault /\ [][NextLifecycle]_vars

SpecTracker == InitDefault /\ [][NextTracker]_vars

SpecWorkers == InitDefault /\ [][NextWorkers]_vars

SpecAttribution == InitDefault /\ [][NextAttribution]_vars

SpecStream == InitDefault /\ [][NextStream]_vars

SpecEngine == InitDefault /\ [][NextEngine]_vars

SpecPipelines == InitDefault /\ [][NextPipelines]_vars

SpecCalls == InitDefault /\ [][NextCalls]_vars

SpecFaceDatabase == InitDefault /\ [][NextFaceDatabase]_vars

SpecHandling == InitDefault /\ [][NextHandling]_vars

\* The recognizer with either value of alert_on_stranger.
InitRecognizer ==
    /\ CapInit(DefaultConfig)
    /\ AlertInit /\ TrackerInit /\ StreamInit /\ EngineInit /\ PipeInit
    /\ CallInit /\ DbInit /\ HandlingInit
    /\ \E setting \in BOOLEAN : RecInit(setting)

SpecRecognizer == InitRecognizer /\ [][NextRecognizer]_vars

SpecDecisions == InitRecognizer /\ [][NextDecisions]_vars

(***************************************************************************)
(* Claims                                                                  *)
(***************************************************************************)

\* The frames 1..n of which the last c are kept, in production order.
LastFrames(n, c) == [i \in 1..c |-> n - c + i]

\* C1: with a queue capacity C = queue_size > 0, the frame queue never holds
\* more than C frames, and while no consumer has dequeued, once the capture
\* loop has enqueued n > C frames the queue holds exactly the C most recently
\* produced frames n-C+1..n in production order.
C1_DropOldestKeepsNewest ==
    config.queue_size > 0 =>
        /\ Len(frame_queue) <= config.queue_size
        /\ (~dequeued /\ cap_pc # "evict" /\ frame_count > config.queue_size)
              => frame_queue = LastFrames(frame_count, config.queue_size)

\* C1 witness: two more frames than the capacity of 2 or more were enqueued
\* with no consumer, so the eviction ran more than once.
C1_Witness ==
    /\ config.queue_size >= 2
    /\ ~dequeued
    /\ cap_pc = "loop"
    /\ frame_count >= config.queue_size + 2
    /\ Len(frame_queue) = config.queue_size

\* C2: for every CaptureConfig the waits between failed attempts of one
\* _reconnect() call never decrease and never exceed max_reconnect_interval;
\* with initial 1, multiplier 2, maximum 60 they are 1, 2, 4, 8, 16, 32, 60, ...
C2_BackoffMonotoneBounded ==
    /\ \A i \in 1..Len(waits) :
          /\ waits[i] <= config.max_reconnect_interval
          /\ i > 1 => waits[i - 1] <= waits[i]
    /\ (/\ config.reconnect_interval = 1 * Scale
        /\ config.reconnect_backoff = <<2, 1>>
        /\ config.max_reconnect_interval = 60 * Scale)
          => \A i \in 1..Len(waits) : waits[i] = Min(2 ^ (i - 1), 60) * Scale

\* The callbacks that ran to their end with their persistence step committed.
Handled == {i \in 1..Len(callbacks) : callbacks[i].pc = "done" /\ callbacks[i].committed}
\* Those among them that merged into an existing row / created a row.
Merged == {i \in Handled : callbacks[i].existing # 0}
Created == {i \in Handled : callbacks[i].existing = 0}

\* C3: de-escalation. When the latest row of (camera, track) is pending /
\* critical / stranger and a known-person event for that track is handled
\* (its merge committed), the row is known / info / processed after the merge
\* and exactly one notification was pushed for the event; no callback ever
\* pushes more than one notification.
C3_Deescalation ==
    /\ \A i \in 1..Len(callbacks) : pushed[i] <= 1
    /\ \A i \in Merged :
          (/\ callbacks[i].data.alert_type = "known"
           /\ callbacks[i].loaded.status = "pending"
           /\ callbacks[i].loaded.alert_level = "critical"
           /\ callbacks[i].loaded.alert_type = "stranger")
          => /\ callbacks[i].result.alert_type = "known"
             /\ callbacks[i].result.alert_level = "info"
             /\ callbacks[i].result.status = "processed"
             /\ pushed[i] = 1

\* C3 witness: a known-person event was merged into a pending critical
\* stranger row.
C3_Witness ==
    \E i \in Merged :
        /\ callbacks[i].data.alert_type = "known"
        /\ callbacks[i].loaded.status = "pending"
        /\ callbacks[i].loaded.alert_level = "critical"
        /\ callbacks[i].loaded.alert_type = "stranger"

\* C4: escalation. When the existing row was created by a body-only
\* loitering event and a face-confirmed stranger (critical) event of the same
\* track is merged into it, the row becomes critical / stranger / pending and
\* the subscribers are notified.
C4_EscalationOfBodyRecord ==
    \A i \in Merged :
        (/\ callbacks[i].loaded.created_from = "BODY_DETECTED"
         /\ callbacks[i].data.event_type = "FACE_DETECTED"
         /\ ~callbacks[i].data.is_known)
        => /\ callbacks[i].result.alert_level = "critical"
           /\ callbacks[i].result.alert_type = "stranger"
           /\ callbacks[i].result.status = "pending"
           /\ pushed[i] = 1

\* C5: silent update. When an event is merged into a row whose type and
\* level are those of the event (a known-person event on a row that already
\* is known included), no notification is pushed and the image history of
\* the row grows by exactly one entry.
C5_SilentUpdate ==
    \A i \in Merged :
        (/\ callbacks[i].data.alert_type = callbacks[i].loaded.alert_type
         /\ callbacks[i].data.alert_level = callbacks[i].loaded.alert_level)
        => /\ pushed[i] = 0
           /\ Len(callbacks[i].result.image_history)
                = Len(callbacks[i].loaded.image_history) + 1

\* C6: creation. A created row has level critical for a face-confirmed
\* stranger event, info for a face event resolved to a known person, warning
\* for a body-only event; its status is pending, except that a row created
\* from a known-person event is processed.
C6_InitialLevelAndStatus ==
    \A i \in Created :
        LET d == callbacks[i].data
            r == callbacks[i].result
        IN  /\ r.alert_level = (IF d.is_known THEN "info"
                                ELSE IF d.event_type = "FACE_DETECTED" THEN "critical"
                                ELSE "warning")
            /\ r.status = (IF d.is_known THEN "processed" ELSE "pending")

\* C7: for every track, two successive FACE_DETECTED emissions are at least
\* ALERT_COOLDOWN_SECONDS apart, unless the score of the later one exceeds
\* the score of the earlier one by more than 20%.
C7_FaceEmissionCooldown ==
    \A c \in Cameras, t \in TrackIds :
        LET f == tracker_log[c][t].faces
        IN  Len(f) = 2 =>
              \/ f[2].time - f[1].time >= ALERT_COOLDOWN_SECONDS
              \/ f[2].score * 10 > f[1].score * 12

\* C8: over any sequence of process() calls of one tracker, absence,
\* eviction and reuse of the id included, at most one BODY_DETECTED event is
\* emitted for a track id.
C8_OneBodyEventPerTrack ==
    \A c \in Cameras, t \in TrackIds : tracker_log[c][t].body <= 1

\* The frames a queue holds after N broadcasts when it keeps the last K.
LastBroadcasts(n, from) == [k \in 1..Min(n, SubscriberQueueSize) |->
                              from + n - Min(n, SubscriberQueueSize) + k]

\* C9: a subscriber queue of capacity K that is not drained never holds
\* more than K frames, and after N >= K broadcasts to its camera it holds
\* exactly the frames N-K+1..N in broadcast order.
C9_QueueKeepsLatest ==
    \A s \in Subs :
        /\ Len(sub_queue[s]) <= SubscriberQueueSize
        /\ (sub_camera[s] # 0 /\ s \in subscribers[sub_camera[s]] /\ ~sub_drained[s]) =>
              LET n == broadcast_count[sub_camera[s]] - sub_from[s]
              IN  /\ sub_queue[s] = LastBroadcasts(n, sub_from[s])
                  /\ n >= SubscriberQueueSize => Len(sub_queue[s]) = SubscriberQueueSize

\* Witness of C9: an undrained subscriber whose camera broadcast more frames
\* than the queue holds, after frames it never saw.
C9_Witness ==
    \E s \in Subs :
        /\ sub_camera[s] # 0 /\ s \in subscribers[sub_camera[s]] /\ ~sub_drained[s]
        /\ sub_from[s] > 0
        /\ broadcast_count[sub_camera[s]] - sub_from[s] > SubscriberQueueSize

\* C10: the tracking state one camera's worker relies on is not read or
\* written by the worker of another camera: every track id a camera holds a
\* TrackedPerson for was issued by the body tracker for that camera's frames.
C10_TrackerStateIsolated ==
    \A c \in Cameras, t \in TrackIds :
        tracked_persons[c][t] # NoPerson => body_model.tracks[t] = c

\* The key of the event a callback carries.
SameTrack(i, j) ==
    /\ callbacks[i].data.camera_id = callbacks[j].data.camera_id
    /\ callbacks[i].data.track_id = callbacks[j].data.track_id

\* C11: for the events of one track on one camera the merges are applied in
\* the order of the events: the callback of a later event has not read the
\* record (is still before its lookup) until the callback of every earlier
\* event of that track is past its commit.
C11_MergesInEventOrder ==
    \A i, j \in 1..Len(callbacks) :
        (i < j /\ SameTrack(i, j) /\ callbacks[j].pc # "lookup")
            => callbacks[i].pc \in {"push", "done"}

\* C12: of the events dispatched for one (camera, track) while no record
\* exists for it, exactly one creates a record under every interleaving of
\* the callbacks: no two committed callbacks of one track both created.
C12_OneRecordPerTrack ==
    \A i, j \in 1..Len(callbacks) :
        (i < j /\ SameTrack(i, j) /\ callbacks[i].committed /\ callbacks[j].committed)
            => ~(callbacks[i].existing = 0 /\ callbacks[j].existing = 0)

\* C13: when the latest record of (camera, track id) is finalized (status
\* processed or ignored), the next event of that track id creates a new
\* record: a committed callback merged only into a record it loaded pending.
C13_FinalizedRecordNotReused ==
    \A i \in 1..Len(callbacks) :
        (callbacks[i].committed /\ callbacks[i].existing # 0)
            => callbacks[i].loaded.status = "pending"

\* C14: once an operator has set the status of a record to processed or
\* ignored (processed_by is set), no later step changes that status.
C14_OperatorStatusIsTerminal ==
    [][\A k \in 1..Len(alert_logs) :
          alert_logs[k].processed_by # 0 => alert_logs'[k].status = alert_logs[k].status]_vars

\* C15: after stop() has returned the status is stopped and stays stopped
\* until the next start(), also when the capture worker did not end within
\* the join timeout and still executes. (The stop flag is set by stop() and
\* cleared only by a start() that spawns.)
C15_StoppedAfterStop ==
    (stop_event /\ stop_pc = "idle") => status = "stopped"

\* C16: at any point after start() returned true and before the worker has
\* ended (not yet connecting, connecting, running, or in a backoff wait), a
\* stop() call sets the stop signal, so that the worker terminates: stop()
\* does not take its early return while a worker without stop signal lives.
C16_StopSignalsLiveWorker ==
    (thread_alive /\ ~stop_event /\ stop_pc = "idle") => ~StopReturnsEarly

\* C17: the capture thread leaves _capture_loop() only when the stop signal
\* is set, whatever connect failures, read failures and exceptions occurred.
C17_ExitOnlyOnStop ==
    [][workers' < workers => stop_event]_vars

\* Witness of C17: the capture thread has ended after it went through two
\* or more reconnection attempts.
C17_Witness ==
    /\ ~thread_alive
    /\ workers = 0
    /\ stop_event
    /\ reconnect_count >= 2
    /\ status = "stopped"

\* What a start() call that does not spawn leaves alone.
StartLeaves ==
    UNCHANGED <<status, frame_queue, frame_count, reconnect_count, stop_event,
                thread_alive, cap_pc, workers, dequeued>>

\* C18: at most one capture worker is alive at a time; start() on a running
\* source returns true and changes no state; start() while the previous
\* worker is alive and the source is not running returns false and spawns
\* no worker.
C18_OneCaptureWorker ==
    [][/\ workers' <= 1
       /\ (start_ret'.calls > start_ret.calls /\ status = "running")
             => (start_ret'.ret = "noop" /\ StartLeaves)
       /\ (start_ret'.calls > start_ret.calls /\ status # "running" /\ thread_alive)
             => (start_ret'.ret = "refused" /\ StartLeaves)]_vars

\* Witness of C18: a start() was refused because the worker of an earlier
\* start() is alive while the source, after a failed connection, is not
\* running.
C18_Witness ==
    /\ start_ret.calls >= 2
    /\ start_ret.ret = "refused"
    /\ status = "error"
    /\ thread_alive
    /\ workers = 1

\* C19: after any sequence of addCamera / startCamera / stopCamera /
\* removeCamera calls, each camera id has at most one live analysis worker
\* and one frame source with a live capture (threads that were told to stop
\* and have not ended yet are not counted); startCamera on a started camera
\* creates no second worker or frame source.
C19_OneWorkerPerCamera ==
    \A c \in Cameras :
        /\ engine_cameras[c].workers - engine_cameras[c].signalled <= 1
        /\ engine_cameras[c].sources - engine_cameras[c].stopping <= 1

\* C20: when loading the shared detection resources fails during start(),
\* start() returns false, the engine status is error and no frame source or
\* worker thread was started since that start() began.
C20_FailedStartStartsNothing ==
    [][(engine_start'.ret = "false" /\ engine_start.ret # "false")
          => (engine_status' = "error" /\ ~engine_start'.spawned)]_vars

\* Witness of C20: start() returned false on an engine that has a camera
\* registered, which a successful start() would have started.
C20_Witness ==
    /\ engine_start.ret = "false"
    /\ engine_status = "error"
    /\ \E c \in Cameras : engine_cameras[c].task /\ ~engine_cameras[c].capture

\* C21: addCamera on a running engine starts the camera's pipeline before it
\* returns; on an engine that is not running it only registers the camera,
\* and the start() that succeeds next starts every registered camera;
\* removeCamera leaves no registration, no analysis worker that was not told
\* to stop and no frame source that was not told to stop for the id.
C21_PipelineFollowsRegistration ==
    [][\A c \in Cameras :
          LET r == engine_cameras[c]
              q == engine_cameras'[c]
          IN  /\ (~r.task /\ q.task /\ engine_status = "running")
                    => /\ q.thread /\ q.capture
                       /\ q.workers = r.workers + 1
                       /\ q.sources = r.sources + 1
              /\ (~r.task /\ q.task /\ engine_status # "running")
                    => /\ ~q.thread /\ ~q.capture
                       /\ q.workers = r.workers
                       /\ q.sources = r.sources
              /\ (engine_start.pc = "loading" /\ engine_start'.ret = "true" /\ r.task)
                    => q.thread /\ q.capture
              /\ (r.task /\ ~q.task)
                    => /\ ~q.thread /\ ~q.capture
                       /\ q.workers - q.signalled = 0
                       /\ q.sources - q.stopping = 0]_vars

\* C22: an analysis worker ends only after its stop signal was set; an
\* iteration of its loop that raises is caught and does not end it.
C22_WorkerEndsOnlyOnSignal ==
    [][\A c \in Cameras :
          engine_cameras'[c].workers < engine_cameras[c].workers
             => engine_cameras[c].signalled > 0]_vars

\* Witness of C22: an iteration of the camera's worker raised and was caught, the
\* worker was told to stop and has ended.
C22_Witness ==
    \E c \in Cameras :
        /\ engine_cameras[c].caught > 0
        /\ engine_cameras[c].workers = 0
        /\ engine_cameras[c].sources > 0
        /\ ~engine_cameras[c].thread

\* The steps of camera b's capture loop and worker that its own position
\* calls for are enabled; the wait for a recognition permit is left out.
OwnStepsEnabled(b) ==
    LET p == pipelines[b]
    IN  /\ (p.source = "running" /\ p.queue < MaxPipelineQueue)
              => ENABLED SourceCapture(b)
        /\ p.source = "running" => ENABLED SourceFail(b)
        /\ p.source = "reconnecting" => ENABLED SourceReconnect(b)
        /\ (p.worker = "idle" /\ p.queue > 0) => ENABLED WorkerDequeue(b)
        /\ p.worker = "tracking" => ENABLED WorkerProcess(b, TRUE)
        /\ p.worker = "take" => ENABLED WorkerTake(b)
        /\ p.worker = "calling" => ENABLED WorkerRelease(b)

\* Camera b's worker, arrived at the recognition call, can go on.
PermitStepEnabled(b) ==
    pipelines[b].worker = "acquire" => ENABLED WorkerAcquire(b)

\* The worker of camera a waits for a frame of its empty queue.
BlockedOnEmptyQueue(a) == pipelines[a].worker = "idle" /\ pipelines[a].queue = 0

Outstanding == Cardinality({c \in Cameras : pipelines[c].worker = "calling"})

\* C24: at every moment the number of outstanding calls to the recognition
\* backend, over all camera workers, is at most the configured concurrency
\* limit, also right after update_limit changed the limit while calls were
\* in flight.
C24_OutstandingWithinLimit == Outstanding <= recognition.limit

\* C25: a subscriber's queue is in the broadcaster's table exactly while its
\* generator is active (after the generator was cancelled or closed the
\* queue is in no set), and no camera id that is a key of the table maps to
\* an empty set.
C25_TableHoldsActiveSubscribers ==
    /\ \A s \in Subs, c \in Cameras :
          (s \in subscribers[c]) <=> (sub_gen[s] = "active" /\ sub_camera[s] = c)
    /\ \A c \in Cameras : (c \in sub_keys) <=> (subscribers[c] # {})

\* Witness of C25: a generator has ended and was the last subscriber of its
\* camera, while the generator of another subscriber is still active.
C25_Witness ==
    \E s, r \in Subs :
        /\ sub_gen[s] = "closed"
        /\ sub_camera[s] \notin sub_keys
        /\ sub_gen[r] = "active"

\* C26: when the persistence step of the alert callback failed for an event
\* (the lookup raised, or the commit of the created or merged row raised, in
\* whichever merge branch), the callback has still pushed the notification
\* for that event by the time it is done.
C26_PushAttemptedAfterFailure ==
    \A i \in 1..Len(callbacks) :
        (callbacks[i].pc = "done" /\ ~callbacks[i].committed) => pushed[i] = 1

\* C27: update_config with a key that is not in the key mapping, and
\* stop_camera / remove_camera with a camera id that is not registered,
\* return a value that differs from the value the operation returns when it
\* succeeds.
C27_UnknownTargetIsReported ==
    ~engine_ret.found =>
        /\ engine_ret.op = "update_config"
              => engine_ret.value # UpdateConfigReturn(TRUE)
        /\ engine_ret.op = "stop_camera"
              => engine_ret.value # StopCameraReturn(TRUE)
        /\ engine_ret.op = "remove_camera"
              => engine_ret.value # RemoveCameraReturn(TRUE)

\* C29: whenever add_person, remove_person, update_person_embeddings and
\* clear have left the registry without an embedding, recognize returns
\* is_stranger = true with similarity 0 for every query embedding, and so did
\* the last recognize call if it was made on such a registry.
C29_EmptyRegistryGivesStranger ==
    /\ NoEmbeddings(face_db) =>
          \A q \in Queries : DbRecognize(face_db, q) = StrangerMatch(0)
    /\ (db_match.called /\ db_match.empty) => db_match.result = StrangerMatch(0)

\* Witness of C29: recognize was called on a registry without embeddings,
\* and the registry holds every person id, each with an empty list (the lists
\* they were added with were replaced by update_person_embeddings).
C29_Witness ==
    /\ db_match.called /\ db_match.empty
    /\ NoEmbeddings(face_db)
    /\ Len(face_db.persons) = MaxPersons

C30_AlertTypeDecision ==
    recognized.site # "none" =>
        IF recognized.match.is_stranger
          THEN /\ recognized.decided = (recognized.site = "engine"
                                         \/ recognizer.alert_on_stranger)
               /\ recognized.alert_type = "stranger"
        ELSE IF recognized.match.group_id \in blacklist_group_ids
          THEN /\ recognized.decided
               /\ recognized.alert_type = "blacklist"
        ELSE /\ ~recognized.decided
             /\ recognized.alert_type = "known"

\* C31: the running-camera count of get_engine_stats equals the number of
\* registered cameras whose capture is in status running, and
\* get_camera_status reports "running" for a registered camera exactly when
\* its capture is running.
C31_StatsFollowSources ==
    /\ RunningCameraCount =
          Cardinality({c \in Cameras : SourceRunning(engine_cameras[c])})
    /\ \A c \in Cameras :
          engine_cameras[c].task =>
             (ReportedStatus(engine_cameras[c]) = "running"
                <=> SourceRunning(engine_cameras[c]))

\* The events of the frame in hand that the for loop has not reached yet.
StillPending == {pending[i] : i \in 1 .. Len(pending)}

\* C32: every event process() returned to the worker is handed to the alert
\* callback exactly once; a failure while the images of one event are saved
\* or while it is recognized drops neither that event nor the events that
\* follow it in the frame. As a statement about every state: an event that
\* was returned is either still waiting in the loop or was handed over once.
C32_EveryEventHandedOnce ==
    \A e \in 1 .. Len(returned) :
        e \in StillPending \/ delivered[e] = 1

\* C33: the capture loop enters reconnection after failed reads only once
\* the count of consecutive failed reads exceeds 10, that is not before the
\* 11th failed read in a row, and a read that succeeds resets the count to 0.
C33_ReconnectAfterEleventhFailure ==
    [][ /\ (cap_pc = "loop" /\ cap_pc' = "rc_try" /\ cap_ret' = "fail")
            => consecutive_failures' > max_consecutive_failures
        /\ (cap_pc = "loop" /\ frame_count' = frame_count + 1)
            => consecutive_failures' = 0 ]_vars

\* The process() call that just returned emitted FACE_DETECTED for track t
\* of camera c.
FaceEmitted(c, t) ==
    \E i \in 1 .. Len(events'[c]) :
        events'[c][i].type = "FACE_DETECTED" /\ events'[c][i].track_id = t

\* C34: per track, the scores recorded at FACE_DETECTED emissions go up
\* strictly, each is at or above the quality floor and each exceeds the one
\* recorded before it by at least 5%; a process() call that emits no
\* FACE_DETECTED for a track leaves its recorded emission time and score as
\* they were.
C34_EmissionRecordMonotonic ==
    [][ \A t \in TrackIds :
          LET p == tracked_persons[1][t]
              q == tracked_persons'[1][t]
              f == tracker_log'[1][t].faces
          IN  /\ \A i \in 1 .. Len(f) : f[i].score >= MinFaceScore
              /\ Len(f) = 2 =>
                    /\ f[2].score > f[1].score
                    /\ f[2].score * 100 >= f[1].score * 105
              /\ (p # NoPerson /\ q # NoPerson /\ ~FaceEmitted(1, t)) =>
                    /\ q.last_save_time = p.last_save_time
                    /\ q.saved_face_score = p.saved_face_score ]_vars

\* TrackedPerson.best_face_score of a track, 0 for a track without record.
BestFaceScore(p) == IF p = NoPerson THEN 0 ELSE p.best_face_score

\* C35: a process() call emits FACE_DETECTED for a track only if it raised
\* the stored best face score of the track, so that the score and the box
\* the event carries are those of the face seen in that frame.
C35_EmittedOnImprovement ==
    [][ \A t \in TrackIds :
          FaceEmitted(1, t) =>
             BestFaceScore(tracked_persons'[1][t]) > BestFaceScore(tracked_persons[1][t])
      ]_vars

\* The ids registered in the tracker of camera c.
Registered(c) == {t \in TrackIds : tracked_persons[c][t] # NoPerson}

\* C36: in every process() call the ROI-qualifying ids are among the ids
\* that passed the height filter, which are among the registered tracks, and
\* the face attribution never looks up a track id that is not registered.
C36_QualifyingIdsAreRegistered ==
    \A c \in Cameras :
        /\ attribution[c].stray = {}
        /\ ~attribution[c].raised
        /\ \A t \in TrackIds :
              disappeared_count[c][t] = 0 => t \in Registered(c)

\* The track table and the counter table of camera c have the same keys
\* and no counter is above the threshold.
TablesAgree(persons, counts) ==
    \A t \in TrackIds :
        /\ persons[t] = NoPerson <=> counts[t] = NoCount
        /\ counts[t] <= max_disappeared

BodyEmitted(c, t) ==
    {i \in 1 .. Len(events'[c]) :
        events'[c][i].type = "BODY_DETECTED" /\ events'[c][i].track_id = t}

\* C38: in every process() call, a visible track whose best face score is
\* below the quality floor of the face events, that has been present for
\* more than the loitering threshold of 1 second and whose reported flag is
\* not set, yields exactly one BODY_DETECTED event and gets the flag set; so
\* no visible track is past the threshold without a FACE_DETECTED or a
\* BODY_DETECTED event emitted for it.
C38_LoiteringAlwaysReported ==
    [][ \A t \in TrackIds :
          LET p == tracked_persons[1][t]
              q == tracked_persons'[1][t]
              visible == q # NoPerson /\ disappeared_count'[1][t] = 0
          IN  (visible /\ now' - q.start_time > 1) =>
                /\ (/\ q.best_face_score < MinFaceScore
                    /\ p = NoPerson \/ ~p.is_stranger_body_reported)
                      => /\ Cardinality(BodyEmitted(1, t)) = 1
                         /\ q.is_stranger_body_reported
                /\ q.is_stranger_body_reported \/ q.saved_face_score > 0 ]_vars

\* The callbacks whose commit wrote row k (created it or merged into it).
CommittedOn(cbs, k) ==
    {i \in 1 .. Len(cbs) : cbs[i].committed /\ cbs[i].result.id = k}

IsPrefix(a, b) == Len(a) <= Len(b) /\ SubSeq(b, 1, Len(a)) = a

\* C39: the image history of an alert row is append-only. After every step
\* the history of a row has one entry per event handled on it (the creation
\* and every merge), a step leaves the entries a row already had in place,
\* and it never moves end_time backwards.
C39_HistoryAppendOnly ==
    [][ \A k \in 1 .. Len(alert_logs') :
          /\ Len(alert_logs'[k].image_history)
                = Cardinality(CommittedOn(callbacks', k))
          /\ k <= Len(alert_logs) =>
                /\ IsPrefix(alert_logs[k].image_history,
                            alert_logs'[k].image_history)
                /\ alert_logs'[k].end_time >= alert_logs[k].end_time ]_vars

\* C40: after every update_config("concurrent_limit", v) call, accepted or
\* not, the stored CONCURRENT_LIMIT_DEFAULT setting equals the limit of the
\* recognition client in use; a value that cannot be converted leaves both
\* as they were. (Only update_config changes either of the two.)
C40_SettingEqualsClientLimit ==
    settings.concurrent_limit = recognition.limit
=============================================================================
